---------------------------- MODULE Spec2Model ----------------------------
(***************************************************************************)
(* pydantic_to_pyarrow.schema: the conversion of a pydantic model class    *)
(* into a pyarrow schema.                                                  *)
(*                                                                         *)
(* The resolvers of schema.py are operators, computed as the code computes *)
(* them.  A call of the public entry point get_pyarrow_schema is a state   *)
(* machine: one step per iteration of the field loop of                    *)
(* _get_pyarrow_schema, then the return (or the raise).                    *)
(***************************************************************************)
EXTENDS Integers, Sequences, FiniteSets, TLC

VARIABLES
    pc,          \* "idle" | "loop" | "returned" | "raised"
    call,        \* the arguments of the call in progress
    hash_order,  \* this process's iteration order of a set of type objects
    i,           \* number of model_fields items the loop has consumed
    fields,      \* the local list `fields` of _get_pyarrow_schema
    visited,     \* positions whose type was handed to _get_pyarrow_type
    result,      \* the value returned, or the exception raised
    pa_version,  \* major version of the pyarrow installed in this process
    shared,      \* the module's tables and the field descriptors of the classes
    threads,     \* per thread: the call it is in and the locals of that call
    stack,       \* the interpreter's call stack of a resolution, innermost last
    ret,         \* what the frame that ended last returned or raised, if pending
    scall        \* the arguments of the resolution the stack belongs to

\* the frames of a resolution that is run call by call
frames == <<stack, ret, scall>>

\* what a call of the entry point made on its own leaves as it is
env == <<hash_order, pa_version, shared, threads, frames>>

vars == <<pc, call, i, fields, visited, result, env>>

----------------------------------------------------------------------------
(* Bounds of the input universe. *)

\* a model class declares 1..MaxFields fields
MaxFields == 3
\* lower bounds of Gt/Ge range over -MaxBound..MaxBound
MaxBound == 1
\* a field carries at most MaxMeta metadata elements
MaxMeta == 2
\* an Enum / a Literal has 1..MaxValues values
MaxValues == 2
\* max_digits ranges over 1..MaxDigits
MaxDigits == 2
\* container types nest at most MaxNest deep
MaxNest == 2

----------------------------------------------------------------------------
(* Python values that occur as Enum/Literal values and as Gt/Ge bounds.    *)
(* t is the value's class, v tells values of one class apart.              *)

Val(t, v) == [t |-> t, v |-> v]
None == Val("NoneType", 0)

\* isinstance(value, str)
IsInstanceStr(value) == value.t = "str"
\* isinstance(value, int): bool is a subclass of int
IsInstanceInt(value) == value.t \in {"int", "bool"}

----------------------------------------------------------------------------
(* Type annotations.  A plain class is [k |-> name]; a parametrized type   *)
(* is [k |-> origin, args |-> ...], so that get_origin is k and get_args   *)
(* is args.  The arguments of a Union are a set: Union[X, Y] == Union[Y, X]*)
(* and the code only ever reads them through set(get_args(...)).           *)

Cls(n) == [k |-> n]
NoneType == Cls("NoneType")
ListOf(t) == [k |-> "list", args |-> <<t>>]
DictOf(kt, vt) == [k |-> "dict", args |-> <<kt, vt>>]
LiteralOf(values) == [k |-> "Literal", args |-> values]
AnnotatedOf(t, items) == [k |-> "Annotated", args |-> <<t>> \o items]
EnumOf(values) == [k |-> "Enum", members |-> values]
ModelOf(n, fs) == [k |-> "Model", name |-> n, model_fields |-> fs]
\* typing flattens nested unions and Union[X] is X
UnionOf(S) ==
    LET flat == UNION {IF t.k = "Union" THEN t.args ELSE {t} : t \in S}
    IN  IF Cardinality(flat) = 1 THEN CHOOSE t \in flat : TRUE
        ELSE [k |-> "Union", args |-> flat]
OptionalOf(t) == UnionOf({t, NoneType})

\* typing_extensions.get_origin
get_origin(field_type) ==
    IF "args" \in DOMAIN field_type THEN field_type.k ELSE "None"
\* typing_extensions.get_args
get_args(field_type) ==
    IF "args" \in DOMAIN field_type THEN field_type.args ELSE <<>>

(* Metadata elements: annotated_types.Gt / Ge, pydantic's general metadata *)
(* object (it exposes exactly the attributes it was built with), a         *)
(* FieldInfo inside Annotated[...], and any other constraint object.       *)
Gt(b) == [k |-> "Gt", gt |-> b]
Ge(b) == [k |-> "Ge", ge |-> b]
GeneralMetadata(md, dp) == [k |-> "General", max_digits |-> md, decimal_places |-> dp]
OnlyMaxDigits(md) == [k |-> "General", max_digits |-> md]
FieldInfoItem(md) == [k |-> "FieldInfo", metadata |-> md]
OtherMetadata == [k |-> "MaxLen"]
\* pydantic.types.UuidVersion: UUID4 is Annotated[UUID, UuidVersion(4)]
UuidVersion(v) == [k |-> "UuidVersion", uuid_version |-> v]
hasattr(el, attr) == attr \in DOMAIN el

----------------------------------------------------------------------------
(* pyarrow data types, fields and schemas, as the values pa.* builds.      *)

PaType(n) == [t |-> n]
PaTimestamp(unit, tz) == [t |-> "timestamp", unit |-> unit, tz |-> tz]
PaDecimal128(precision, scale) ==
    [t |-> "decimal128", precision |-> precision, scale |-> scale]
PaDictionary(index, value) ==
    [t |-> "dictionary", index_type |-> index, value_type |-> value]
PaList(value) == [t |-> "list", value_type |-> value]
PaMap(key, item) == [t |-> "map", key_type |-> key, item_type |-> item]
PaStruct(fs) == [t |-> "struct", fields |-> fs]
PaSchema(fs) == [t |-> "schema", fields |-> fs]
PaField(name, type, nullable) == [name |-> name, type |-> type, nullable |-> nullable]

(* The outcome of a function: a returned value or a raised exception.      *)
Ok(v) == [ok |-> TRUE, val |-> v]
Raise(exc, msg) == [ok |-> FALSE, exc |-> exc, msg |-> msg]

----------------------------------------------------------------------------
(* schema.py *)

FIELD_MAP ==
    (Cls("str") :> PaType("string"))
    @@ (Cls("bytes") :> PaType("binary"))
    @@ (Cls("bool") :> PaType("bool"))
    @@ (Cls("float") :> PaType("float64"))
    @@ (Cls("date") :> PaType("date32"))
    @@ (Cls("NaiveDatetime") :> PaTimestamp("ms", "None"))
    @@ (Cls("time") :> [t |-> "time64", unit |-> "us"])

LOSING_TZ_TYPES ==
    (Cls("datetime") :> PaTimestamp("ms", "None"))
    @@ (Cls("AwareDatetime") :> PaTimestamp("ms", "None"))

\* _get_int_type with `min_value > 0` for `min_value >= 0`
RECURSIVE _get_int_type_loop_gt0(_, _, _)
_get_int_type_loop_gt0(metadata, n, min_value) ==
    IF n > Len(metadata)
    THEN IF min_value # None /\ min_value.v > 0
         THEN Ok(PaType("uint64"))
         ELSE Ok(PaType("int64"))
    ELSE LET el == metadata[n]
         IN  IF el.k = "Gt"
             THEN IF el.gt # None /\ ~IsInstanceInt(el.gt)
                  THEN Raise("SchemaCreationError", [text |-> "Gt metadata must be int"])
                  ELSE _get_int_type_loop_gt0(metadata, n + 1, el.gt)
             ELSE IF el.k = "Ge"
             THEN IF el.ge # None /\ ~IsInstanceInt(el.ge)
                  THEN Raise("SchemaCreationError", [text |-> "Ge metadata must be int"])
                  ELSE _get_int_type_loop_gt0(metadata, n + 1, el.ge)
             ELSE _get_int_type_loop_gt0(metadata, n + 1, min_value)

\* _get_int_type without the isinstance check of the Ge branch
RECURSIVE _get_int_type_loop_ge_unchecked(_, _, _)
_get_int_type_loop_ge_unchecked(metadata, n, min_value) ==
    IF n > Len(metadata)
    THEN IF min_value # None /\ min_value.v >= 0
         THEN Ok(PaType("uint64"))
         ELSE Ok(PaType("int64"))
    ELSE LET el == metadata[n]
         IN  IF el.k = "Gt"
             THEN IF el.gt # None /\ ~IsInstanceInt(el.gt)
                  THEN Raise("SchemaCreationError", [text |-> "Gt metadata must be int"])
                  ELSE _get_int_type_loop_ge_unchecked(metadata, n + 1, el.gt)
             ELSE IF el.k = "Ge"
             THEN _get_int_type_loop_ge_unchecked(metadata, n + 1, el.ge)
             ELSE _get_int_type_loop_ge_unchecked(metadata, n + 1, min_value)

\* _get_int_type that keeps the first lower bound it finds
RECURSIVE _get_int_type_loop_first(_, _, _)
_get_int_type_loop_first(metadata, n, min_value) ==
    IF n > Len(metadata)
    THEN IF min_value # None /\ min_value.v >= 0
         THEN Ok(PaType("uint64"))
         ELSE Ok(PaType("int64"))
    ELSE LET el == metadata[n]
         IN  IF el.k = "Gt"
             THEN IF el.gt # None /\ ~IsInstanceInt(el.gt)
                  THEN Raise("SchemaCreationError", [text |-> "Gt metadata must be int"])
                  ELSE _get_int_type_loop_first(metadata, n + 1,
                            IF min_value = None THEN el.gt ELSE min_value)
             ELSE IF el.k = "Ge"
             THEN IF el.ge # None /\ ~IsInstanceInt(el.ge)
                  THEN Raise("SchemaCreationError", [text |-> "Ge metadata must be int"])
                  ELSE _get_int_type_loop_first(metadata, n + 1,
                            IF min_value = None THEN el.ge ELSE min_value)
             ELSE _get_int_type_loop_first(metadata, n + 1, min_value)

\* the for loop of _get_int_type from element n on, min_value so far
RECURSIVE _get_int_type_loop(_, _, _)
_get_int_type_loop(metadata, n, min_value) ==
    IF n > Len(metadata)
    THEN IF min_value # None /\ min_value.v >= 0
         THEN Ok(PaType("uint64"))
         ELSE Ok(PaType("int64"))
    ELSE LET el == metadata[n]
         IN  IF el.k = "Gt"
             THEN IF el.gt # None /\ ~IsInstanceInt(el.gt)
                  THEN Raise("SchemaCreationError", [text |-> "Gt metadata must be int"])
                  ELSE _get_int_type_loop(metadata, n + 1, el.gt)
             ELSE IF el.k = "Ge"
             THEN IF el.ge # None /\ ~IsInstanceInt(el.ge)
                  THEN Raise("SchemaCreationError", [text |-> "Ge metadata must be int"])
                  ELSE _get_int_type_loop(metadata, n + 1, el.ge)
             ELSE _get_int_type_loop(metadata, n + 1, min_value)

_get_int_type(metadata) == _get_int_type_loop(metadata, 1, None)

\* _get_decimal_type with the arguments of pa.decimal128 swapped
_get_decimal_type_swapped(metadata) ==
    LET found == {n \in 1..Len(metadata) :
                    hasattr(metadata[n], "max_digits")
                    /\ hasattr(metadata[n], "decimal_places")}
    IN  IF found = {}
        THEN Raise("SchemaCreationError",
                   [text |-> "Decimal type needs annotation setting max_digits and decimal_places"])
        ELSE LET general_metadata == metadata[CHOOSE n \in found : \A m \in found : m <= n]
             IN  Ok(PaDecimal128(general_metadata.decimal_places,
                                 general_metadata.max_digits))

_get_decimal_type(metadata) ==
    LET found == {n \in 1..Len(metadata) :
                    hasattr(metadata[n], "max_digits")
                    /\ hasattr(metadata[n], "decimal_places")}
    IN  IF found = {}
        THEN Raise("SchemaCreationError",
                   [text |-> "Decimal type needs annotation setting max_digits and decimal_places"])
        ELSE LET general_metadata == metadata[CHOOSE n \in found : \A m \in found : m <= n]
             IN  Ok(PaDecimal128(general_metadata.max_digits,
                                 general_metadata.decimal_places))

TYPES_WITH_METADATA == {Cls("Decimal"), Cls("int")}

\* _get_literal_type with any(...) for the first all(...)
_get_literal_type_any(field_type, _metadata, _allow_losing_tz, _exclude_fields) ==
    LET values == get_args(field_type)
    IN  IF \E n \in 1..Len(values) : IsInstanceStr(values[n])
        THEN Ok(PaDictionary(PaType("int32"), PaType("string")))
        ELSE IF \A n \in 1..Len(values) : IsInstanceInt(values[n])
        THEN Ok(PaType("int64"))
        ELSE Raise("SchemaCreationError",
                   [text |-> "Literal type is only supported with all int or string values. "])

_get_literal_type(field_type, _metadata, _allow_losing_tz, _exclude_fields) ==
    LET values == get_args(field_type)
    IN  IF \A n \in 1..Len(values) : IsInstanceStr(values[n])
        THEN Ok(PaDictionary(PaType("int32"), PaType("string")))
        ELSE IF \A n \in 1..Len(values) : IsInstanceInt(values[n])
        THEN Ok(PaType("int64"))
        ELSE Raise("SchemaCreationError",
                   [text |-> "Literal type is only supported with all int or string values. "])

_get_enum_type(field_type) ==
    LET is_str == [n \in 1..Len(field_type.members) |-> IsInstanceStr(field_type.members[n])]
        is_int == [n \in 1..Len(field_type.members) |-> IsInstanceInt(field_type.members[n])]
    IN  IF \A n \in DOMAIN is_str : is_str[n]
        THEN Ok(PaDictionary(PaType("int32"), PaType("string")))
        ELSE IF \A n \in DOMAIN is_int : is_int[n]
        THEN Ok(PaType("int64"))
        ELSE Raise("SchemaCreationError",
                   [text |-> "Enums only allowed if all str or all int"])

\* _is_optional without the test for the null arm
_is_optional_any_union(field_type) == get_origin(field_type) = "Union"

_is_optional(field_type) ==
    LET origin == get_origin(field_type)
    IN  IF origin # "Union" THEN FALSE ELSE NoneType \in get_args(field_type)

\* list(S)[0] for a set S of type objects: the element that comes first in
\* this process's iteration order
ListOfSet0(S) ==
    IF Cardinality(S) = 1 THEN CHOOSE t \in S : TRUE
    ELSE LET pos(t) == CHOOSE n \in 1..Len(hash_order) : hash_order[n] = t
         IN  CHOOSE t \in S : \A u \in S : pos(t) <= pos(u)

FIELD_TYPES == {"Literal", "list", "Annotated", "dict"}

RECURSIVE _get_pyarrow_type(_, _, _, _)
RECURSIVE _get_pyarrow_schema(_, _, _, _)

\* _get_list_type that hands the element type on as it is
_get_list_type_no_strip(field_type, metadata, allow_losing_tz, _exclude_fields) ==
    LET sub_type == get_args(field_type)[1]
        inner == _get_pyarrow_type(sub_type, metadata, allow_losing_tz, _exclude_fields)
    IN  IF inner.ok THEN Ok(PaList(inner.val)) ELSE inner

_get_list_type(field_type, metadata, allow_losing_tz, _exclude_fields) ==
    LET sub_type0 == get_args(field_type)[1]
        sub_type == IF _is_optional(sub_type0)
                    THEN ListOfSet0(get_args(sub_type0) \ {NoneType})
                    ELSE sub_type0
        inner == _get_pyarrow_type(sub_type, metadata, allow_losing_tz, _exclude_fields)
    IN  IF inner.ok THEN Ok(PaList(inner.val)) ELSE inner

\* the tail of a sequence from element n on
From(s, n) == [m \in 1..(Len(s) - n + 1) |-> s[m + n - 1]]

RECURSIVE Flatten(_)
Flatten(lists) ==
    IF lists = <<>> THEN <<>> ELSE Head(lists) \o Flatten(Tail(lists))

\* _get_annotated_type that strips the null arm of its base type
_get_annotated_type_strip(field_type, metadata0, allow_losing_tz, exclude_fields) ==
    LET args == From(get_args(field_type), 2)
        metadatas == [n \in 1..Len(args) |->
                        IF hasattr(args[n], "metadata")
                        THEN args[n].metadata ELSE <<args[n]>>]
        metadata == Flatten(metadatas)
        base0 == get_args(field_type)[1]
        base == IF _is_optional(base0)
                THEN ListOfSet0(get_args(base0) \ {NoneType}) ELSE base0
    IN  _get_pyarrow_type(base, metadata, allow_losing_tz, exclude_fields)

_get_annotated_type(field_type, metadata0, allow_losing_tz, exclude_fields) ==
    LET args == From(get_args(field_type), 2)
        metadatas == [n \in 1..Len(args) |->
                        IF hasattr(args[n], "metadata")
                        THEN args[n].metadata ELSE <<args[n]>>]
        metadata == Flatten(metadatas)
        base == get_args(field_type)[1]
    IN  _get_pyarrow_type(base, metadata, allow_losing_tz, exclude_fields)

\* _get_dict_type that does not pass allow_losing_tz on to the value side
_get_dict_type_allow(field_type, metadata, allow_losing_tz, _exclude_fields) ==
    LET key_type == get_args(field_type)[1]
        value_type == get_args(field_type)[2]
        key == _get_pyarrow_type(key_type, metadata, allow_losing_tz, _exclude_fields)
        item == _get_pyarrow_type(value_type, metadata, TRUE, _exclude_fields)
    IN  IF ~key.ok THEN key
        ELSE IF ~item.ok THEN item
        ELSE Ok(PaMap(key.val, item.val))

\* _get_dict_type that resolves the key without the metadata
_get_dict_type_bare_key(field_type, metadata, allow_losing_tz, _exclude_fields) ==
    LET key_type == get_args(field_type)[1]
        value_type == get_args(field_type)[2]
        key == _get_pyarrow_type(key_type, <<>>, allow_losing_tz, _exclude_fields)
        item == _get_pyarrow_type(value_type, metadata, allow_losing_tz, _exclude_fields)
    IN  IF ~key.ok THEN key
        ELSE IF ~item.ok THEN item
        ELSE Ok(PaMap(key.val, item.val))

_get_dict_type(field_type, metadata, allow_losing_tz, _exclude_fields) ==
    LET key_type == get_args(field_type)[1]
        value_type == get_args(field_type)[2]
        key == _get_pyarrow_type(key_type, metadata, allow_losing_tz, _exclude_fields)
        item == _get_pyarrow_type(value_type, metadata, allow_losing_tz, _exclude_fields)
    IN  IF ~key.ok THEN key
        ELSE IF ~item.ok THEN item
        ELSE Ok(PaMap(key.val, item.val))

\* line 211-213 without exclude_fields handed on to the nested class
_get_nested_model_no_exclude(field_type, allow_losing_tz, exclude_fields) ==
    _get_pyarrow_schema(field_type, allow_losing_tz, FALSE, FALSE)

\* line 211-213 with the two positional flags in the wrong order
_get_nested_model_swapped_flags(field_type, allow_losing_tz, exclude_fields) ==
    _get_pyarrow_schema(field_type, exclude_fields, allow_losing_tz, FALSE)

\* line 210-213: a BaseModel subclass resolves to the struct of its fields
_get_nested_model(field_type, allow_losing_tz, exclude_fields) ==
    _get_pyarrow_schema(field_type, allow_losing_tz, exclude_fields, FALSE)

\* _get_pyarrow_type that first asks issubclass(field_type, int): bool and
\* the enums with an int mixin are subclasses of int
_get_pyarrow_type_int_first(field_type, metadata, allow_losing_tz, exclude_fields) ==
    IF \/ field_type \in {Cls("int"), Cls("bool")}
       \/ /\ field_type.k = "Enum"
          /\ \A n \in 1..Len(field_type.members) : IsInstanceInt(field_type.members[n])
    THEN _get_int_type(metadata)
    ELSE IF field_type \in DOMAIN FIELD_MAP
    THEN Ok(FIELD_MAP[field_type])
    ELSE IF allow_losing_tz /\ field_type \in DOMAIN LOSING_TZ_TYPES
    THEN Ok(LOSING_TZ_TYPES[field_type])
    ELSE IF ~allow_losing_tz /\ field_type \in DOMAIN LOSING_TZ_TYPES
    THEN Raise("SchemaCreationError",
               [text |-> "only allowed if ok losing timezone information",
                field_type |-> field_type])
    ELSE IF field_type.k = "Enum"
    THEN _get_enum_type(field_type)
    ELSE IF field_type \in TYPES_WITH_METADATA
    THEN _get_decimal_type(metadata)
    ELSE IF get_origin(field_type) \in FIELD_TYPES
    THEN CASE get_origin(field_type) = "Literal" ->
                _get_literal_type(field_type, metadata, allow_losing_tz, exclude_fields)
           [] get_origin(field_type) = "list" ->
                _get_list_type(field_type, metadata, allow_losing_tz, exclude_fields)
           [] get_origin(field_type) = "Annotated" ->
                _get_annotated_type(field_type, metadata, allow_losing_tz, exclude_fields)
           [] get_origin(field_type) = "dict" ->
                _get_dict_type(field_type, metadata, allow_losing_tz, exclude_fields)
    ELSE IF field_type.k = "Model"
    THEN _get_nested_model(field_type, allow_losing_tz, exclude_fields)
    ELSE Raise("SchemaCreationError",
               [text |-> "Unknown type", field_type |-> field_type])

_get_pyarrow_type(field_type, metadata, allow_losing_tz, exclude_fields) ==
    IF field_type \in DOMAIN FIELD_MAP
    THEN Ok(FIELD_MAP[field_type])
    ELSE IF allow_losing_tz /\ field_type \in DOMAIN LOSING_TZ_TYPES
    THEN Ok(LOSING_TZ_TYPES[field_type])
    ELSE IF ~allow_losing_tz /\ field_type \in DOMAIN LOSING_TZ_TYPES
    THEN Raise("SchemaCreationError",
               [text |-> "only allowed if ok losing timezone information",
                field_type |-> field_type])
    ELSE IF field_type.k = "Enum"
    THEN _get_enum_type(field_type)
    ELSE IF field_type \in TYPES_WITH_METADATA
    THEN IF field_type = Cls("Decimal")
         THEN _get_decimal_type(metadata)
         ELSE _get_int_type(metadata)
    ELSE IF get_origin(field_type) \in FIELD_TYPES
    THEN CASE get_origin(field_type) = "Literal" ->
                _get_literal_type(field_type, metadata, allow_losing_tz, exclude_fields)
           [] get_origin(field_type) = "list" ->
                _get_list_type(field_type, metadata, allow_losing_tz, exclude_fields)
           [] get_origin(field_type) = "Annotated" ->
                _get_annotated_type(field_type, metadata, allow_losing_tz, exclude_fields)
           [] get_origin(field_type) = "dict" ->
                _get_dict_type(field_type, metadata, allow_losing_tz, exclude_fields)
    ELSE IF field_type.k = "Model"
    THEN _get_nested_model(field_type, allow_losing_tz, exclude_fields)
    ELSE Raise("SchemaCreationError",
               [text |-> "Unknown type", field_type |-> field_type])


\* line 226 without `and exclude_fields`
is_excluded_ignoring_flag(field_info, exclude_fields) == field_info.exclude

\* line 226: `field_info.exclude and exclude_fields`
is_excluded(field_info, exclude_fields) == field_info.exclude /\ exclude_fields

\* the loop body with a normalizer that refuses a union of several
\* non-null arms
_get_pyarrow_schema_body_one_arm(name, field_info, allow_losing_tz, exclude_fields) ==
    IF is_excluded(field_info, exclude_fields)
    THEN [act |-> "continue"]
    ELSE LET field_type0 == field_info.annotation
             metadata == field_info.metadata
         IN  IF field_type0 = None
             THEN [act |-> "raise", exc |-> "SchemaCreationError",
                   msg |-> [text |-> "Missing type for field", name |-> name]]
             ELSE LET nullable == _is_optional(field_type0)
                      types_under_union == get_args(field_type0) \ {NoneType}
                      field_type == IF nullable
                                    THEN ListOfSet0(types_under_union)
                                    ELSE field_type0
                      pa_field == _get_pyarrow_type(field_type, metadata,
                                                    allow_losing_tz, exclude_fields)
                  IN  IF nullable /\ Cardinality(types_under_union) > 1
                      THEN [act |-> "raise", exc |-> "SchemaCreationError",
                            msg |-> [text |-> "Error processing field",
                                     name |-> name,
                                     field_type |-> field_type0,
                                     err |-> [text |-> "Unknown type",
                                              field_type |-> field_type0]]]
                      ELSE IF ~pa_field.ok
                      THEN [act |-> "raise", exc |-> "SchemaCreationError",
                            msg |-> [text |-> "Error processing field",
                                     name |-> name,
                                     field_type |-> field_type,
                                     err |-> pa_field.msg]]
                      ELSE [act |-> "append",
                            field |-> PaField(name, pa_field.val, nullable)]

\* line 239-243: the type the loop body hands to dispatch
HandedOnType(field_type0) ==
    IF _is_optional(field_type0)
    THEN ListOfSet0(get_args(field_type0) \ {NoneType})
    ELSE field_type0

\* one iteration of the for loop of _get_pyarrow_schema: `continue`, an
\* appended pa.field, or a raise
_get_pyarrow_schema_body(name, field_info, allow_losing_tz, exclude_fields) ==
    IF is_excluded(field_info, exclude_fields)
    THEN [act |-> "continue"]
    ELSE LET field_type0 == field_info.annotation
             metadata == field_info.metadata
         IN  IF field_type0 = None
             THEN [act |-> "raise", exc |-> "SchemaCreationError",
                   msg |-> [text |-> "Missing type for field", name |-> name]]
             ELSE LET nullable == _is_optional(field_type0)
                      types_under_union == get_args(field_type0) \ {NoneType}
                      field_type == IF nullable
                                    THEN ListOfSet0(types_under_union)
                                    ELSE field_type0
                      pa_field == _get_pyarrow_type(field_type, metadata,
                                                    allow_losing_tz, exclude_fields)
                  IN  IF ~pa_field.ok
                      THEN [act |-> "raise", exc |-> "SchemaCreationError",
                            msg |-> [text |-> "Error processing field",
                                     name |-> name,
                                     field_type |-> field_type,
                                     err |-> pa_field.msg]]
                      ELSE [act |-> "append",
                            field |-> PaField(name, pa_field.val, nullable)]

\* the for loop of _get_pyarrow_schema from item n on, `done` being the
\* list `fields` so far
RECURSIVE _get_pyarrow_schema_loop(_, _, _, _, _)
_get_pyarrow_schema_loop(items, n, done, allow_losing_tz, exclude_fields) ==
    IF n > Len(items)
    THEN Ok(done)
    ELSE LET step == _get_pyarrow_schema_body(items[n].name, items[n],
                                              allow_losing_tz, exclude_fields)
         IN  CASE step.act = "continue" ->
                    _get_pyarrow_schema_loop(items, n + 1, done,
                                             allow_losing_tz, exclude_fields)
               [] step.act = "append" ->
                    _get_pyarrow_schema_loop(items, n + 1, Append(done, step.field),
                                             allow_losing_tz, exclude_fields)
               [] step.act = "raise" -> Raise(step.exc, step.msg)

\* pa.schema(fields) or pa.struct(fields)
SchemaOrStruct(fs, as_schema) == IF as_schema THEN PaSchema(fs) ELSE PaStruct(fs)

_get_pyarrow_schema(pydantic_class, allow_losing_tz, exclude_fields, as_schema) ==
    LET looped == _get_pyarrow_schema_loop(pydantic_class.model_fields, 1, <<>>,
                                           allow_losing_tz, exclude_fields)
    IN  IF looped.ok THEN Ok(SchemaOrStruct(looped.val, as_schema)) ELSE looped

\* the public entry point, run to completion
get_pyarrow_schema(pydantic_class, allow_losing_tz, exclude_fields) ==
    _get_pyarrow_schema(pydantic_class, allow_losing_tz, exclude_fields, TRUE)

\* the keyword parameters the signature of get_pyarrow_schema declares
Signature == {"allow_losing_tz", "exclude_fields"}

----------------------------------------------------------------------------
(* The model classes a caller can pass: what pydantic's introspection      *)
(* yields for the classes of a program.                                    *)

\* sequences over S of length lo..hi
SeqsOf(S, lo, hi) == UNION {[1..n -> S] : n \in lo..hi}

\* a FieldInfo as far as schema.py and the alias options read it; its name
\* is its key in model_fields, given by its position in the class body
Info(annotation, metadata, exclude) ==
    [annotation |-> annotation, metadata |-> metadata, exclude |-> exclude,
     alias |-> "None", validation_alias |-> "None", serialization_alias |-> "None"]
AliasInfo(alias, validation_alias, serialization_alias) ==
    [annotation |-> Cls("str"), metadata |-> <<>>, exclude |-> FALSE,
     alias |-> alias, validation_alias |-> validation_alias,
     serialization_alias |-> serialization_alias]
FieldNames == <<"a", "b", "c", "d", "e", "f">>
Named(info, n) ==
    [name |-> FieldNames[n], annotation |-> info.annotation,
     metadata |-> info.metadata, exclude |-> info.exclude, alias |-> info.alias,
     validation_alias |-> info.validation_alias,
     serialization_alias |-> info.serialization_alias]
Class(n, infos) == ModelOf(n, [p \in 1..Len(infos) |-> Named(infos[p], p)])

IntVal(n) == Val("int", n)
StrVal(n) == Val("str", n)

LowerBounds ==
    {IntVal(n) : n \in (0 - MaxBound)..MaxBound}
    \cup {None, Val("float", 0), Val("bool", 1)}
Generals == {GeneralMetadata(m, d) : m \in 1..MaxDigits, d \in 0..1}
IntMetaElems ==
    {Gt(b) : b \in LowerBounds} \cup {Ge(b) : b \in LowerBounds}
    \cup {OtherMetadata, GeneralMetadata(MaxDigits, 1)}
DecimalMetaElems ==
    Generals \cup {OnlyMaxDigits(MaxDigits), OtherMetadata, Ge(IntVal(0))}
MetaElems == IntMetaElems \cup DecimalMetaElems

LiteralValues == {StrVal(1), StrVal(2), IntVal(1), Val("float", 1), Val("bool", 1)}
ValueSeqs == SeqsOf(LiteralValues, 1, MaxValues)

\* nested model classes
Inner == Class("Inner", <<Info(Cls("str"), <<>>, TRUE),
                          Info(Cls("int"), <<Ge(IntVal(0))>>, FALSE)>>)
InnerTz == Class("InnerTz", <<Info(OptionalOf(Cls("datetime")), <<>>, FALSE),
                              Info(Cls("str"), <<>>, FALSE)>>)
Mid == Class("Mid", <<Info(ListOf(Inner), <<>>, FALSE),
                      Info(Cls("Deque"), <<>>, TRUE),
                      Info(OptionalOf(InnerTz), <<>>, TRUE)>>)

\* the type objects that occur as arms of a union with several non-null arms
MultiArms == {Cls("int"), Cls("Deque")}

UnknownTypes == {Cls("Deque")}
PlainTypes ==
    DOMAIN FIELD_MAP \cup DOMAIN LOSING_TZ_TYPES \cup TYPES_WITH_METADATA
    \cup UnknownTypes \cup {Inner, InnerTz, Mid}
NestLeaves ==
    {Cls("str"), Cls("NaiveDatetime"), Cls("datetime"), Cls("int"),
     Cls("Deque"), Inner, InnerTz}

\* one more level of parametrized type around the types of S
Wrap(S) ==
    {ListOf(t) : t \in S} \cup {OptionalOf(t) : t \in S}
    \cup {DictOf(Cls("str"), t) : t \in S} \cup {DictOf(t, Cls("str")) : t \in S}
    \cup {DictOf(t, t) : t \in S}
    \cup {AnnotatedOf(t, <<Ge(IntVal(0))>>) : t \in S}
    \cup {AnnotatedOf(t, <<FieldInfoItem(<<Gt(IntVal(0 - 1))>>), OtherMetadata>>) : t \in S}

RECURSIVE NestedTypes(_)
NestedTypes(depth) ==
    IF depth = 0 THEN NestLeaves
    ELSE LET S == NestedTypes(depth - 1) IN S \cup Wrap(S)

UnionTypes ==
    LET u == UnionOf(MultiArms)
    IN  {u, OptionalOf(u), ListOf(u), ListOf(OptionalOf(u)),
         DictOf(Cls("str"), OptionalOf(u))}

\* uuid.UUID where a field can carry it; the version-specific UUID1..UUID5
\* are the same class with a UuidVersion in the field's metadata
UuidTypes ==
    {Cls("UUID"), OptionalOf(Cls("UUID")), ListOf(Cls("UUID")),
     DictOf(Cls("str"), Cls("UUID"))}
UuidMetadata == {<<>>, <<UuidVersion(1)>>, <<UuidVersion(4)>>, <<OtherMetadata, UuidVersion(5)>>}

EnumAndLiteralTypes ==
    {EnumOf(vs) : vs \in ValueSeqs} \cup {LiteralOf(vs) : vs \in ValueSeqs}

\* types whose resolution reads the field's metadata
MetadataCarriers ==
    {OptionalOf(Cls("int")), ListOf(Cls("int")), ListOf(OptionalOf(Cls("int"))),
     ListOf(Cls("Decimal")), OptionalOf(Cls("Decimal")),
     DictOf(Cls("int"), Cls("Decimal")), DictOf(Cls("str"), Cls("int")),
     DictOf(Cls("int"), Cls("int")), OptionalOf(DictOf(Cls("Decimal"), Cls("Decimal"))),
     AnnotatedOf(Cls("int"), <<OtherMetadata>>),
     OptionalOf(AnnotatedOf(Cls("Decimal"),
                            <<FieldInfoItem(<<GeneralMetadata(MaxDigits, 1)>>)>>)),
     ListOf(OptionalOf(AnnotatedOf(Cls("Decimal"),
                                   <<FieldInfoItem(<<GeneralMetadata(MaxDigits, 1)>>)>>)))}

\* classes that are not int, with an integer constraint in the metadata
ConstrainedNonInts ==
    {Cls("bool"), Cls("str"), Cls("datetime"), Cls("Deque"), Inner,
     EnumOf(<<IntVal(1)>>), EnumOf(<<StrVal(1)>>), EnumOf(<<IntVal(1), StrVal(1)>>),
     LiteralOf(<<IntVal(1)>>)}

\* fields of every shape, one to a class
SingleInfos ==
    {Info(t, <<>>, FALSE) :
        t \in PlainTypes \cup NestedTypes(MaxNest) \cup UnionTypes \cup EnumAndLiteralTypes}
    \cup {Info(Cls("int"), md, FALSE) : md \in SeqsOf(IntMetaElems, 0, MaxMeta)}
    \cup {Info(Cls("Decimal"), md, FALSE) : md \in SeqsOf(DecimalMetaElems, 0, MaxMeta)}
    \cup {Info(t, md, FALSE) : t \in MetadataCarriers, md \in SeqsOf(MetaElems, 0, 1)}
    \cup {Info(t, md, FALSE) : t \in UuidTypes, md \in UuidMetadata}
    \cup {Info(t, <<Ge(IntVal(0))>>, FALSE) : t \in ConstrainedNonInts}

\* the fields classes of several fields are made of
CoreInfos ==
    {Info(Cls("str"), <<>>, FALSE),
     Info(Cls("str"), <<>>, TRUE),
     Info(OptionalOf(Cls("int")), <<Ge(IntVal(0))>>, FALSE),
     Info(Cls("datetime"), <<>>, FALSE),
     Info(Cls("Deque"), <<>>, TRUE),
     Info(Cls("Decimal"), <<>>, FALSE),
     Info(Inner, <<>>, FALSE),
     Info(OptionalOf(Mid), <<>>, FALSE)}

AliasInfos ==
    {AliasInfo("None", "None", "None"),
     AliasInfo("b", "None", "None"),
     AliasInfo("None", "v", "None"),
     AliasInfo("None", "None", "s"),
     AliasInfo("b", "None", "s")}

ModelClasses ==
    {Class("Single", <<info>>) : info \in SingleInfos}
    \cup {Class("Model", infos) : infos \in SeqsOf(CoreInfos, 1, MaxFields)}
    \cup {Class("AliasModel", infos) : infos \in SeqsOf(AliasInfos, 1, MaxFields)}

\* the classes the threads of a program convert, by name
ThreadClasses ==
    [Readings |-> Class("Readings", <<Info(OptionalOf(Cls("int")), <<Ge(IntVal(0))>>, FALSE),
                                      Info(Cls("Deque"), <<>>, TRUE)>>),
     Event |-> Class("Event", <<Info(Inner, <<>>, FALSE),
                                Info(OptionalOf(Cls("datetime")), <<>>, FALSE)>>),
     Tagged |-> Class("Tagged", <<Info(OptionalOf(UnionOf(MultiArms)),
                                       <<Ge(IntVal(0))>>, FALSE)>>)]

\* a model class named in an annotation: the class object, whose
\* model_fields are looked up when it is resolved
Ref(n) == [k |-> "Model", name |-> n]

\* model classes that refer to each other, some of them to themselves
StackClasses ==
    [Leaf |-> <<Info(Cls("int"), <<Ge(IntVal(0))>>, FALSE),
                Info(Cls("str"), <<>>, TRUE)>>,
     Tree |-> <<Info(ListOf(OptionalOf(Ref("Leaf"))), <<>>, FALSE),
                Info(DictOf(Cls("str"), AnnotatedOf(Cls("int"), <<Ge(IntVal(0))>>)),
                     <<>>, FALSE),
                Info(OptionalOf(Ref("Leaf")), <<>>, TRUE)>>,
     Bad |-> <<Info(Ref("Leaf"), <<>>, FALSE),
               Info(DictOf(Cls("datetime"), Cls("Deque")), <<>>, FALSE)>>,
     Node |-> <<Info(Cls("str"), <<>>, FALSE),
                Info(OptionalOf(Ref("Node")), <<>>, FALSE)>>,
     Ping |-> <<Info(ListOf(Ref("Pong")), <<>>, TRUE)>>,
     Pong |-> <<Info(Cls("datetime"), <<>>, FALSE),
                Info(Ref("Ping"), <<>>, FALSE)>>]
StackItems(n) == [p \in 1..Len(StackClasses[n]) |-> Named(StackClasses[n][p], p)]

\* sys.getrecursionlimit(), in frames of _get_pyarrow_schema and
\* _get_pyarrow_type
RecursionLimit == 7

\* threads of the program that call the entry point
MaxThreads == 2
ThreadIds == 1..MaxThreads

HashOrders ==
    {order \in [1..Cardinality(MultiArms) -> MultiArms] :
        \A n, m \in DOMAIN order : order[n] = order[m] => n = m}

\* the pyarrow releases the process may have installed: one before pa.uuid()
\* exists and one that has it
PaVersions == {17, 18}
\* the first pyarrow release with pa.uuid()
UuidMinVersion == 18

----------------------------------------------------------------------------
(* A call of get_pyarrow_schema. *)

NoCall == [pydantic_class |-> Class("None", <<>>), allow_losing_tz |-> FALSE,
           exclude_fields |-> FALSE, kwargs |-> {}]
NoResult == Raise("None", [text |-> "None"])

\* the objects the module and the program's classes hold once imported
ModuleState ==
    [FIELD_MAP |-> FIELD_MAP,
     LOSING_TZ_TYPES |-> LOSING_TZ_TYPES,
     TYPES_WITH_METADATA |-> TYPES_WITH_METADATA,
     FIELD_TYPES |-> FIELD_TYPES,
     model_fields |-> [n \in DOMAIN ThreadClasses |-> ThreadClasses[n].model_fields]]

\* no frame has ended since the last call was made
NoReturn == Raise("NoReturn", [text |-> "None"])

\* a thread that is in no call
IdleThread == [pc |-> "idle", call |-> [NoCall EXCEPT !.pydantic_class = "None"],
               i |-> 0, fields |-> <<>>, result |-> NoResult]

Init ==
    /\ pc = "idle"
    /\ call = NoCall
    /\ hash_order \in HashOrders
    /\ pa_version \in PaVersions
    /\ i = 0
    /\ fields = <<>>
    /\ visited = {}
    /\ result = NoResult
    /\ shared = ModuleState
    /\ threads = [t \in ThreadIds |-> IdleThread]
    /\ stack = <<>>
    /\ ret = NoReturn
    /\ scall = [NoCall EXCEPT !.pydantic_class = "None"]

\* get_pyarrow_schema(pydantic_class, allow_losing_tz, exclude_fields, **kw):
\* a keyword the signature does not declare is a TypeError at the call
Call(cls, allow, exclude, kw) ==
    /\ pc = "idle"
    /\ call' = [pydantic_class |-> cls, allow_losing_tz |-> allow,
                exclude_fields |-> exclude, kwargs |-> kw]
    /\ IF \E a \in kw : a[1] \notin Signature
       THEN /\ pc' = "raised"
            /\ result' = Raise("TypeError",
                               [text |-> "got an unexpected keyword argument",
                                name |-> (CHOOSE a \in kw : a[1] \notin Signature)[1]])
       ELSE /\ pc' = "loop"
            /\ result' = result
    /\ UNCHANGED <<env, i, fields, visited>>

Items == call.pydantic_class.model_fields
Step == _get_pyarrow_schema_body(Items[i + 1].name, Items[i + 1],
                                 call.allow_losing_tz, call.exclude_fields)

\* line 226-227: an excluded field is skipped
SkipField ==
    /\ pc = "loop" /\ i < Len(Items)
    /\ Step.act = "continue"
    /\ i' = i + 1
    /\ UNCHANGED <<pc, call, env, fields, visited, result>>

\* AppendField with fields.insert(0, ...) for fields.append(...)
AppendField_prepend ==
    /\ pc = "loop" /\ i < Len(Items)
    /\ Step.act = "append"
    /\ fields' = <<Step.field>> \o fields
    /\ visited' = visited \cup {i + 1}
    /\ i' = i + 1
    /\ UNCHANGED <<pc, call, env, result>>

\* line 228-256: the field resolves and is appended
AppendField ==
    /\ pc = "loop" /\ i < Len(Items)
    /\ Step.act = "append"
    /\ fields' = Append(fields, Step.field)
    /\ visited' = visited \cup {i + 1}
    /\ i' = i + 1
    /\ UNCHANGED <<pc, call, env, result>>

\* RaiseField that swallows the exception and goes on with the next field
RaiseField_swallow ==
    /\ pc = "loop" /\ i < Len(Items)
    /\ Step.act = "raise"
    /\ visited' = visited \cup {i + 1}
    /\ i' = i + 1
    /\ UNCHANGED <<pc, call, env, fields, result>>

\* line 231-235, 251-254: the field fails and the call raises
RaiseField ==
    /\ pc = "loop" /\ i < Len(Items)
    /\ Step.act = "raise"
    /\ visited' = (IF Items[i + 1].annotation = None THEN visited ELSE visited \cup {i + 1})
    /\ i' = i + 1
    /\ pc' = "raised"
    /\ result' = Raise(Step.exc, Step.msg)
    /\ UNCHANGED <<call, env, fields>>

\* line 258-260: the loop is over, the schema is returned
Return ==
    /\ pc = "loop" /\ i = Len(Items)
    /\ pc' = "returned"
    /\ result' = Ok(SchemaOrStruct(fields, TRUE))
    /\ UNCHANGED <<call, env, i, fields, visited>>

\* a caller calls the entry point with a class of the program and any options,
\* no other call being in progress
Calls ==
    /\ pc = "idle"
    /\ \E cls \in ModelClasses, allow \in BOOLEAN, exclude \in BOOLEAN,
          kw \in {{}, {<<"by_alias", TRUE>>}, {<<"by_alias", FALSE>>}} :
            Call(cls, allow, exclude, kw)

Next ==
    \/ Calls
    \/ SkipField
    \/ AppendField
    \/ RaiseField
    \/ Return

Spec == Init /\ [][Next]_vars

----------------------------------------------------------------------------
(* A resolution run call by call on the interpreter's stack.  A frame is an *)
(* activation of _get_pyarrow_schema or of _get_pyarrow_type (with the      *)
(* resolver it dispatches to); a call made when the stack holds             *)
(* RecursionLimit frames raises RecursionError in the caller.               *)

SchemaFrame(cls, as_schema) ==
    [fn |-> "_get_pyarrow_schema", pydantic_class |-> cls, as_schema |-> as_schema,
     i |-> 0, fields |-> <<>>,
     name |-> "None", field_type |-> NoneType, nullable |-> FALSE]
TypeFrame(field_type, metadata) ==
    [fn |-> "_get_pyarrow_type", field_type |-> field_type, metadata |-> metadata,
     got |-> <<>>]

Top == stack[Len(stack)]
Pop == SubSeq(stack, 1, Len(stack) - 1)
ReplaceTop(frame) == [stack EXCEPT ![Len(stack)] = frame]
InSchema == stack # <<>> /\ Top.fn = "_get_pyarrow_schema"
InType == stack # <<>> /\ Top.fn = "_get_pyarrow_type"
RecursionError ==
    Raise("RecursionError", [text |-> "maximum recursion depth exceeded"])
rest == <<pc, call, i, fields, visited, result, hash_order, pa_version, shared, threads>>

\* line 116-120: the metadata _get_annotated_type hands on
AnnotatedMetadata(field_type) ==
    LET args == From(get_args(field_type), 2)
    IN  Flatten([n \in 1..Len(args) |->
                    IF hasattr(args[n], "metadata") THEN args[n].metadata ELSE <<args[n]>>])

\* the rules of _get_pyarrow_type that make no further call of it
Immediate(field_type) ==
    /\ get_origin(field_type) \notin {"list", "Annotated", "dict"}
    /\ field_type.k # "Model"

\* line 263-283: the entry point is called
StackCall(cls, allow, exclude) ==
    /\ stack = <<>> /\ ret = NoReturn /\ scall.pydantic_class = "None"
    /\ scall' = [pydantic_class |-> cls, allow_losing_tz |-> allow,
                 exclude_fields |-> exclude, kwargs |-> {}]
    /\ stack' = <<SchemaFrame(cls, TRUE)>>
    /\ UNCHANGED <<ret, rest>>

StackCalls ==
    \E cls \in DOMAIN StackClasses, allow \in BOOLEAN, exclude \in BOOLEAN :
        StackCall(cls, allow, exclude)

SchemaItem == StackItems(Top.pydantic_class)[Top.i + 1]
SchemaHasItem == InSchema /\ ret = NoReturn /\ Top.i < Len(StackItems(Top.pydantic_class))

\* line 226-227
SchemaSkip ==
    /\ SchemaHasItem
    /\ is_excluded(SchemaItem, scall.exclude_fields)
    /\ stack' = ReplaceTop([Top EXCEPT !.i = @ + 1])
    /\ UNCHANGED <<ret, scall, rest>>

\* line 228-250: the call of _get_pyarrow_type for the next field; a
\* RecursionError of that call is caught at line 251
SchemaResolve ==
    /\ SchemaHasItem
    /\ ~is_excluded(SchemaItem, scall.exclude_fields)
    /\ LET field_type == HandedOnType(SchemaItem.annotation)
           frame == [Top EXCEPT !.name = SchemaItem.name,
                                !.field_type = field_type,
                                !.nullable = _is_optional(SchemaItem.annotation)]
       IN  IF Len(stack) < RecursionLimit
           THEN /\ stack' = Append(ReplaceTop(frame),
                                   TypeFrame(field_type, SchemaItem.metadata))
                /\ ret' = ret
           ELSE /\ stack' = ReplaceTop(frame)
                /\ ret' = RecursionError
    /\ UNCHANGED <<scall, rest>>

\* line 256: the field resolved
SchemaAppend ==
    /\ InSchema /\ ret # NoReturn /\ ret.ok
    /\ stack' = ReplaceTop([Top EXCEPT
                    !.fields = Append(@, PaField(Top.name, ret.val, Top.nullable)),
                    !.i = @ + 1])
    /\ ret' = NoReturn
    /\ UNCHANGED <<scall, rest>>

\* SchemaRaise with `except SchemaCreationError` for `except Exception`
SchemaRaise_narrow_except ==
    /\ InSchema /\ ret # NoReturn /\ ~ret.ok
    /\ stack' = Pop
    /\ ret' = (IF ret.exc = "SchemaCreationError"
               THEN Raise("SchemaCreationError",
                          [text |-> "Error processing field", name |-> Top.name,
                           field_type |-> Top.field_type, err |-> ret.msg])
               ELSE ret)
    /\ UNCHANGED <<scall, rest>>

\* line 251-254: whatever was raised is wrapped and raised on
SchemaRaise ==
    /\ InSchema /\ ret # NoReturn /\ ~ret.ok
    /\ stack' = Pop
    /\ ret' = Raise("SchemaCreationError",
                    [text |-> "Error processing field", name |-> Top.name,
                     field_type |-> Top.field_type, err |-> ret.msg])
    /\ UNCHANGED <<scall, rest>>

\* line 258-260
SchemaReturn ==
    /\ InSchema /\ ret = NoReturn /\ Top.i = Len(StackItems(Top.pydantic_class))
    /\ stack' = Pop
    /\ ret' = Ok(SchemaOrStruct(Top.fields, Top.as_schema))
    /\ UNCHANGED <<scall, rest>>

\* line 186-206, 215: a rule that returns or raises without calling
\* _get_pyarrow_type again
TypeReturn ==
    /\ InType /\ ret = NoReturn /\ Immediate(Top.field_type)
    /\ stack' = Pop
    /\ ret' = _get_pyarrow_type(Top.field_type, Top.metadata,
                                scall.allow_losing_tz, scall.exclude_fields)
    /\ UNCHANGED <<scall, rest>>

\* the frame the next call of the resolver of Top pushes
Callee ==
    LET t == Top.field_type
    IN  CASE get_origin(t) = "list" ->
                TypeFrame(HandedOnType(get_args(t)[1]), Top.metadata)
          [] get_origin(t) = "dict" ->
                TypeFrame(get_args(t)[Len(Top.got) + 1], Top.metadata)
          [] get_origin(t) = "Annotated" ->
                TypeFrame(get_args(t)[1], AnnotatedMetadata(t))
          [] OTHER -> SchemaFrame(t.name, FALSE)

\* line 104-105, 122, 133-144, 211-213: the resolver calls _get_pyarrow_type
\* or _get_pyarrow_schema; a RecursionError of that call is not caught here
TypeCall ==
    /\ InType /\ ret = NoReturn /\ ~Immediate(Top.field_type)
    /\ IF Len(stack) < RecursionLimit
       THEN stack' = Append(stack, Callee) /\ ret' = ret
       ELSE stack' = Pop /\ ret' = RecursionError
    /\ UNCHANGED <<scall, rest>>

\* what the resolver of Top returns once its calls have returned `got`
Built(got) ==
    LET t == Top.field_type
    IN  CASE get_origin(t) = "list" -> PaList(got[1])
          [] get_origin(t) = "dict" -> PaMap(got[1], got[2])
          [] OTHER -> got[1]

\* a call made by the resolver returned
TypeReceive ==
    /\ InType /\ ret # NoReturn /\ ret.ok
    /\ LET got == Append(Top.got, ret.val)
       IN  IF get_origin(Top.field_type) = "dict" /\ Len(got) < 2
           THEN stack' = ReplaceTop([Top EXCEPT !.got = got]) /\ ret' = NoReturn
           ELSE stack' = Pop /\ ret' = Ok(Built(got))
    /\ UNCHANGED <<scall, rest>>

\* a call made by the resolver raised: the exception passes through
TypePropagate ==
    /\ InType /\ ret # NoReturn /\ ~ret.ok
    /\ stack' = Pop
    /\ UNCHANGED <<ret, scall, rest>>

NextStack ==
    \/ StackCalls
    \/ SchemaSkip
    \/ SchemaResolve
    \/ SchemaAppend
    \/ SchemaRaise
    \/ SchemaReturn
    \/ TypeReturn
    \/ TypeCall
    \/ TypeReceive
    \/ TypePropagate

\* the interpreter runs the resolution on as long as a frame is left
SpecStack == Init /\ [][NextStack]_vars /\ WF_vars(NextStack)

----------------------------------------------------------------------------
(* Calls of get_pyarrow_schema made by several threads.  Each thread runs   *)
(* the field loop of its own call; a step of a thread is one iteration.     *)
(* The locals of a call (fields, the loop position) belong to its frame;    *)
(* the class is looked up in the descriptors the threads share.             *)

ThreadItems(t) == shared.model_fields[threads[t].call.pydantic_class]
ThreadStep(t) ==
    LET item == ThreadItems(t)[threads[t].i + 1]
    IN  _get_pyarrow_schema_body(item.name, item, threads[t].call.allow_losing_tz,
                                 threads[t].call.exclude_fields)
InLoop(t) == threads[t].pc = "loop" /\ threads[t].i < Len(ThreadItems(t))
others == <<pc, call, i, fields, visited, result, hash_order, pa_version, frames>>

\* line 263-283: thread t calls the entry point
ThreadCall(t, cls, allow, exclude) ==
    /\ threads[t].pc = "idle"
    /\ threads' = [threads EXCEPT ![t] =
                      [pc |-> "loop",
                       call |-> [pydantic_class |-> cls, allow_losing_tz |-> allow,
                                 exclude_fields |-> exclude, kwargs |-> {}],
                       i |-> 0, fields |-> <<>>, result |-> NoResult]]
    /\ UNCHANGED <<shared, others>>

ThreadCalls(t) ==
    \E cls \in DOMAIN ThreadClasses, allow \in BOOLEAN, exclude \in BOOLEAN :
        ThreadCall(t, cls, allow, exclude)

\* line 226-227
ThreadSkipField(t) ==
    /\ InLoop(t)
    /\ ThreadStep(t).act = "continue"
    /\ threads' = [threads EXCEPT ![t].i = @ + 1]
    /\ UNCHANGED <<shared, others>>

\* ThreadAppendField with the unwrapped type stored back into the field
\* descriptor (field_info.annotation = types_under_union[0])
ThreadAppendField_store_back(t) ==
    /\ InLoop(t)
    /\ ThreadStep(t).act = "append"
    /\ threads' = [threads EXCEPT ![t].i = @ + 1,
                                  ![t].fields = Append(@, ThreadStep(t).field)]
    /\ shared' = [shared EXCEPT
                    !.model_fields[threads[t].call.pydantic_class][threads[t].i + 1].annotation
                        = HandedOnType(@)]
    /\ UNCHANGED others

\* line 228-256
ThreadAppendField(t) ==
    /\ InLoop(t)
    /\ ThreadStep(t).act = "append"
    /\ threads' = [threads EXCEPT ![t].i = @ + 1,
                                  ![t].fields = Append(@, ThreadStep(t).field)]
    /\ UNCHANGED <<shared, others>>

\* line 231-235, 251-254
ThreadRaiseField(t) ==
    /\ InLoop(t)
    /\ ThreadStep(t).act = "raise"
    /\ threads' = [threads EXCEPT ![t].i = @ + 1,
                                  ![t].pc = "raised",
                                  ![t].result = Raise(ThreadStep(t).exc, ThreadStep(t).msg)]
    /\ UNCHANGED <<shared, others>>

\* line 258-260
ThreadReturn(t) ==
    /\ threads[t].pc = "loop" /\ threads[t].i = Len(ThreadItems(t))
    /\ threads' = [threads EXCEPT ![t].pc = "returned",
                                  ![t].result = Ok(SchemaOrStruct(threads[t].fields, TRUE))]
    /\ UNCHANGED <<shared, others>>

\* the caller of thread t has its result and may call again
ThreadDone(t) ==
    /\ threads[t].pc \in {"returned", "raised"}
    /\ threads' = [threads EXCEPT ![t] = IdleThread]
    /\ UNCHANGED <<shared, others>>

NextThreads ==
    \E t \in ThreadIds :
        \/ ThreadCalls(t)
        \/ ThreadSkipField(t)
        \/ ThreadAppendField(t)
        \/ ThreadRaiseField(t)
        \/ ThreadReturn(t)
        \/ ThreadDone(t)

SpecThreads == Init /\ [][NextThreads]_vars

----------------------------------------------------------------------------
(* Properties. *)

\* the fields of the class that exclusion filtering does not skip, in
\* declaration order
Skipped(info) == info.exclude /\ call.exclude_fields
KeptItems == SelectSeq(Items, LAMBDA info : ~Skipped(info))
\* the position in the output of the field declared at position p
OutputIndex(p) == Cardinality({r \in 1..p : ~Skipped(Items[r])})
\* a union with the null type among its arms
HasNullArm(t) == t.k = "Union" /\ NoneType \in t.args
NonNullArms(t) == t.args \ {NoneType}
\* Optional[T], T not a union
IsOptionalOf(t) == HasNullArm(t) /\ Cardinality(NonNullArms(t)) = 1
Unwrapped(t) == IF IsOptionalOf(t) THEN CHOOSE u \in NonNullArms(t) : TRUE ELSE t
\* the call failed inside the field loop
Failed == pc = "raised" /\ result.exc = "SchemaCreationError"

(* C1: when the call succeeds, the schema holds exactly one field per      *)
(* source field that exclusion filtering did not skip, in declaration      *)
(* order: none duplicated, reordered or dropped.                           *)
C1_FieldsInDeclarationOrder ==
    pc = "returned" =>
        /\ Len(result.val.fields) = Len(KeptItems)
        /\ \A q \in 1..Len(KeptItems) : result.val.fields[q].name = KeptItems[q].name

C1_Witness ==
    /\ pc = "returned" /\ call.exclude_fields
    /\ Len(Items) = 3 /\ Items[2].exclude
    /\ Len(result.val.fields) = 2

(* C2: an emitted field is nullable exactly when its declared type is a    *)
(* union with the null type among its arms; Optional[T] has the column     *)
(* type of T.                                                              *)
C2_NullableIffOptional ==
    pc = "returned" =>
        \A q \in 1..Len(KeptItems) :
            LET info == KeptItems[q]
                f == result.val.fields[q]
            IN  /\ f.nullable = HasNullArm(info.annotation)
                /\ IsOptionalOf(info.annotation) =>
                      f.type = _get_pyarrow_type(Unwrapped(info.annotation), info.metadata,
                                                 call.allow_losing_tz,
                                                 call.exclude_fields).val

C2_Witness ==
    /\ pc = "returned"
    /\ Len(result.val.fields) = 2
    /\ result.val.fields[1].nullable /\ result.val.fields[1].type = PaType("uint64")
    /\ ~result.val.fields[2].nullable

(* C3: an integer field (plain, under Optional, or as a list element) with *)
(* at most one lower-bound constraint, its bound an integer or None,       *)
(* resolves, to uint64 when the bound is an integer >= 0 and to int64 when *)
(* the bound is negative, None or absent.                                  *)
LowerBoundsOf(md) == {n \in 1..Len(md) : md[n].k \in {"Gt", "Ge"}}
BoundOf(el) == IF el.k = "Gt" THEN el.gt ELSE el.ge
IntShapes ==
    {Cls("int"), OptionalOf(Cls("int")), ListOf(Cls("int")),
     ListOf(OptionalOf(Cls("int")))}
IntColumn(annotation, type) == IF annotation.k = "list" THEN type.value_type ELSE type
OneIntegerBound(md) ==
    /\ Cardinality(LowerBoundsOf(md)) <= 1
    /\ \A n \in LowerBoundsOf(md) : BoundOf(md[n]).t \in {"int", "NoneType"}
NonNegativeBound(md) ==
    \E n \in LowerBoundsOf(md) : BoundOf(md[n]).t = "int" /\ BoundOf(md[n]).v >= 0
C3_IntSignedness ==
    \A p \in 1..i :
        LET info == Items[p]
        IN  (/\ info.annotation \in IntShapes
             /\ ~Skipped(info)
             /\ OneIntegerBound(info.metadata)) =>
                /\ ~(pc = "raised" /\ p = i)
                /\ IntColumn(info.annotation, fields[OutputIndex(p)].type)
                       = IF NonNegativeBound(info.metadata)
                         THEN PaType("uint64") ELSE PaType("int64")
                /\ fields[OutputIndex(p)].type.t = "list" <=> info.annotation.k = "list"

C3_Witness ==
    /\ pc = "returned"
    /\ Items[1].annotation = ListOf(OptionalOf(Cls("int")))
    /\ Items[1].metadata = <<Gt(IntVal(0))>>
    /\ result.val.fields[1].type = PaList(PaType("uint64"))

(* C4: a decimal field (plain, under Optional, or as a list element)       *)
(* resolves to Decimal128(max_digits, decimal_places) of the last metadata *)
(* element exposing both attributes, and fails with the missing-metadata   *)
(* error when no element exposes both.                                     *)
ExposesBoth(el) == {"max_digits", "decimal_places"} \subseteq DOMAIN el
DecimalShapes ==
    {Cls("Decimal"), OptionalOf(Cls("Decimal")), ListOf(Cls("Decimal"))}
C4_Decimal ==
    \A p \in 1..i :
        LET info == Items[p]
            md == info.metadata
            both == {n \in 1..Len(md) : ExposesBoth(md[n])}
            last == CHOOSE n \in both : \A m \in both : m <= n
        IN  (info.annotation \in DecimalShapes /\ ~Skipped(info)) =>
                IF both = {}
                THEN /\ Failed /\ p = i
                     /\ result.msg.err.text =
                          "Decimal type needs annotation setting max_digits and decimal_places"
                ELSE /\ ~(pc = "raised" /\ p = i)
                     /\ IntColumn(info.annotation, fields[OutputIndex(p)].type)
                          = PaDecimal128(md[last].max_digits, md[last].decimal_places)

C4_Witness ==
    /\ pc = "returned"
    /\ Items[1].annotation = Cls("Decimal")
    /\ Items[1].metadata = <<OtherMetadata, GeneralMetadata(2, 1)>>
    /\ result.val.fields[1].type = PaDecimal128(2, 1)

C4_WitnessBare ==
    /\ Failed
    /\ Items[1].annotation = Cls("Decimal") /\ Items[1].metadata = <<>>

(* C5: an Enum and a Literal resolve by their values alone: all strings -> *)
(* dictionary(int32, string); all integers (Python's isinstance(v, int),   *)
(* so bool counts) -> int64; anything else -> SchemaCreationError.  The    *)
(* outcome does not depend on the number of values nor on whether the type *)
(* is an Enum or a Literal.                                                *)
ValuesOf(t) == IF t.k = "Enum" THEN t.members ELSE t.args
AllStrings(vs) == \A n \in 1..Len(vs) : vs[n].t = "str"
AllIntegers(vs) == \A n \in 1..Len(vs) : vs[n].t \in {"int", "bool"}
C5_EnumLiteralHomogeneity ==
    \A p \in 1..i :
        LET info == Items[p]
            vs == ValuesOf(info.annotation)
        IN  (info.annotation.k \in {"Enum", "Literal"} /\ ~Skipped(info)) =>
                /\ CASE AllStrings(vs) ->
                          /\ ~(pc = "raised" /\ p = i)
                          /\ fields[OutputIndex(p)].type
                               = PaDictionary(PaType("int32"), PaType("string"))
                     [] AllIntegers(vs) /\ ~AllStrings(vs) ->
                          /\ ~(pc = "raised" /\ p = i)
                          /\ fields[OutputIndex(p)].type = PaType("int64")
                     [] OTHER -> Failed /\ p = i
                /\ LET e == _get_enum_type(EnumOf(vs))
                       l == _get_literal_type(LiteralOf(vs), info.metadata,
                                              call.allow_losing_tz, call.exclude_fields)
                   IN  e.ok = l.ok /\ (e.ok => e.val = l.val) /\ (~e.ok => e.exc = l.exc)

C5_Witness ==
    /\ Failed
    /\ Items[1].annotation = LiteralOf(<<StrVal(1), IntVal(1)>>)

C5_WitnessEnum ==
    /\ pc = "returned"
    /\ Items[1].annotation = EnumOf(<<StrVal(1), StrVal(2)>>)
    /\ result.val.fields[1].type = PaDictionary(PaType("int32"), PaType("string"))

(* C6: a datetime / AwareDatetime at a position resolution reaches (the    *)
(* field's type, under Optional, a list element, a map side, the base of   *)
(* Annotated, a non-skipped field of a nested class) makes the call fail   *)
(* when allow_losing_tz is false, with the timezone error whenever the     *)
(* flag is all that stands in the way; with the flag true it is a          *)
(* timestamp("ms", tz=None) column.  NaiveDatetime and date resolve under  *)
(* either flag.                                                            *)
TzTypes == {Cls("datetime"), Cls("AwareDatetime")}
RECURSIVE ReachesTz(_, _)
ReachesTz(t, exclude) ==
    CASE t \in TzTypes -> TRUE
      [] t.k = "list" -> ReachesTz(Unwrapped(t.args[1]), exclude)
      [] t.k = "dict" -> ReachesTz(t.args[1], exclude) \/ ReachesTz(t.args[2], exclude)
      [] t.k = "Annotated" -> ReachesTz(t.args[1], exclude)
      [] t.k = "Model" ->
            \E n \in 1..Len(t.model_fields) :
                /\ ~(t.model_fields[n].exclude /\ exclude)
                /\ ReachesTz(Unwrapped(t.model_fields[n].annotation), exclude)
      [] OTHER -> FALSE
RECURSIVE TzColumnsOk(_, _, _)
TzColumnsOk(t, pa, exclude) ==
    CASE t \in TzTypes -> pa = PaTimestamp("ms", "None")
      [] t.k = "list" ->
            pa.t = "list" /\ TzColumnsOk(Unwrapped(t.args[1]), pa.value_type, exclude)
      [] t.k = "dict" ->
            /\ pa.t = "map"
            /\ TzColumnsOk(t.args[1], pa.key_type, exclude)
            /\ TzColumnsOk(t.args[2], pa.item_type, exclude)
      [] t.k = "Annotated" -> TzColumnsOk(t.args[1], pa, exclude)
      [] t.k = "Model" ->
            LET kept == SelectSeq(t.model_fields, LAMBDA f : ~(f.exclude /\ exclude))
            IN  /\ pa.t = "struct"
                /\ Len(pa.fields) = Len(kept)
                /\ \A q \in 1..Len(kept) :
                      TzColumnsOk(Unwrapped(kept[q].annotation), pa.fields[q].type, exclude)
      [] OTHER -> TRUE
RECURSIVE Innermost(_)
Innermost(msg) == IF "err" \in DOMAIN msg THEN Innermost(msg.err) ELSE msg
TzErrorText == "only allowed if ok losing timezone information"
C6_TimezoneFlag ==
    \A p \in 1..i :
        LET info == Items[p]
            t == Unwrapped(info.annotation)
            allow == call.allow_losing_tz
            exclude == call.exclude_fields
            failedHere == pc = "raised" /\ p = i
        IN  ~Skipped(info) =>
                /\ (ReachesTz(t, exclude) /\ ~allow) => Failed /\ p = i
                /\ (/\ ReachesTz(t, exclude) /\ ~allow
                    /\ _get_pyarrow_type(t, info.metadata, TRUE, exclude).ok) =>
                        /\ Innermost(result.msg).text = TzErrorText
                        /\ Innermost(result.msg).field_type \in TzTypes
                /\ (allow /\ failedHere) => Innermost(result.msg).text # TzErrorText
                /\ (allow /\ ~failedHere) =>
                        TzColumnsOk(t, fields[OutputIndex(p)].type, exclude)
                /\ t = Cls("NaiveDatetime") =>
                        ~failedHere /\ fields[OutputIndex(p)].type = PaTimestamp("ms", "None")
                /\ t = Cls("date") =>
                        ~failedHere /\ fields[OutputIndex(p)].type = PaType("date32")

C6_Witness ==
    /\ Failed /\ ~call.allow_losing_tz
    /\ Items[1].annotation = DictOf(Cls("str"), ListOf(Cls("datetime")))
    /\ Innermost(result.msg).text = TzErrorText

C6_WitnessAllowed ==
    /\ pc = "returned" /\ call.allow_losing_tz
    /\ Items[1].annotation = ListOf(InnerTz)
    /\ result.val.fields[1].type.value_type.fields[1]
         = PaField("a", PaTimestamp("ms", "None"), TRUE)

(* C7: with exclude_fields=true a field marked excluded is never handed to *)
(* type resolution, is not in the schema and cannot be the field the call  *)
(* fails on; with exclude_fields=false it is resolved and kept as if it    *)
(* were not marked.                                                        *)
C7_ExcludeFields ==
    /\ call.exclude_fields =>
          /\ \A p \in visited : ~Items[p].exclude
          /\ Failed => ~Items[i].exclude
          /\ pc = "returned" =>
                LET plain == SelectSeq(Items, LAMBDA info : ~info.exclude)
                IN  /\ Len(result.val.fields) = Len(plain)
                    /\ \A q \in 1..Len(plain) : result.val.fields[q].name = plain[q].name
    /\ (~call.exclude_fields /\ call.kwargs = {}) =>
          /\ visited = 1..i
          /\ pc = "returned" => Len(result.val.fields) = Len(Items)
          /\ \A p \in 1..i :
                LET unmarked == [Items[p] EXCEPT !.exclude = FALSE]
                    alone == _get_pyarrow_schema_body(unmarked.name, unmarked,
                                                      call.allow_losing_tz, FALSE)
                IN  IF pc = "raised" /\ p = i
                    THEN alone.act = "raise" /\ alone.msg = result.msg
                    ELSE alone.act = "append" /\ alone.field = fields[p]

C7_Witness ==
    /\ pc = "returned" /\ call.exclude_fields
    /\ Len(Items) = 2
    /\ Items[1].exclude /\ Items[1].annotation = Cls("Deque")
    /\ Len(result.val.fields) = 1 /\ result.val.fields[1].name = "b"

C7_WitnessKept ==
    /\ pc = "returned" /\ ~call.exclude_fields
    /\ Len(Items) = 2 /\ Items[2].exclude
    /\ Len(result.val.fields) = 2

(* C8: a field whose type is a nested model class (possibly under          *)
(* Optional) is a struct whose fields are those of the schema the entry    *)
(* point returns for that class alone under the same flags, and fails      *)
(* exactly when that call fails; the struct field's nullability is that of *)
(* the enclosing field.  A call's outcome is that of the entry point run   *)
(* to completion.                                                          *)
C8_NestedModelIsStandaloneSchema ==
    /\ \A p \in 1..i :
          LET info == Items[p]
              m == Unwrapped(info.annotation)
              alone == get_pyarrow_schema(m, call.allow_losing_tz, call.exclude_fields)
          IN  (m.k = "Model" /\ ~Skipped(info)) =>
                  IF pc = "raised" /\ p = i
                  THEN ~alone.ok /\ result.msg.err = alone.msg
                  ELSE /\ alone.ok
                       /\ fields[OutputIndex(p)].type = PaStruct(alone.val.fields)
                       /\ fields[OutputIndex(p)].nullable = HasNullArm(info.annotation)
    /\ (pc = "returned" \/ Failed) =>
          result = get_pyarrow_schema(call.pydantic_class, call.allow_losing_tz,
                                      call.exclude_fields)

C8_Witness ==
    /\ pc = "returned" /\ call.exclude_fields
    /\ Len(Items) = 2
    /\ Items[1].annotation = Inner /\ Items[2].annotation = OptionalOf(Mid)
    /\ result.val.fields[1] = PaField("a", PaStruct(<<PaField("b", PaType("uint64"), FALSE)>>), FALSE)
    /\ result.val.fields[2].nullable /\ result.val.fields[2].type.t = "struct"

(* C9: a failure while resolving a field ends the call with a              *)
(* SchemaCreationError that carries the field's name and the type that was *)
(* being resolved; the field is the first failing non-skipped one, no      *)
(* later field is looked at, nothing more happens, and a schema is         *)
(* returned only when every non-skipped field resolved.                    *)
Fails(info) ==
    _get_pyarrow_schema_body(info.name, info, call.allow_losing_tz,
                             call.exclude_fields).act = "raise"
C9_FirstFailureWrapped ==
    /\ (pc = "raised" /\ call.kwargs = {}) => result.exc = "SchemaCreationError"
    /\ Failed =>
          LET info == Items[i]
          IN  /\ result.msg.text = "Error processing field"
              /\ result.msg.name = info.name
              /\ result.msg.field_type \in
                    (IF HasNullArm(info.annotation)
                     THEN NonNullArms(info.annotation) ELSE {info.annotation})
              /\ DOMAIN result = {"ok", "exc", "msg"}
              /\ Fails(info) /\ ~Skipped(info)
              /\ \A q \in 1..(i - 1) : ~Fails(Items[q])
              /\ visited \subseteq 1..i
              /\ ~ENABLED Next
    /\ pc = "returned" =>
          /\ \A q \in 1..Len(Items) : ~Fails(Items[q])
          /\ Len(result.val.fields) = Len(KeptItems)
          /\ ~ENABLED Next
    /\ pc = "loop" => result = NoResult

C9_Witness ==
    /\ Failed
    /\ Len(Items) = 3 /\ i = 2
    /\ Len(fields) = 1
    /\ Fails(Items[3])
    /\ result.msg.name = "b"

(* C10: get_pyarrow_schema accepts by_alias; with by_alias=True (and no    *)
(* alias generator) each emitted name is the serialization alias if set,   *)
(* else the alias if set, else the declared name.                          *)
EmittedName(info) ==
    IF info.serialization_alias # "None" THEN info.serialization_alias
    ELSE IF info.alias # "None" THEN info.alias
    ELSE info.name
C10_ByAliasNames ==
    (pc # "idle" /\ <<"by_alias", TRUE>> \in call.kwargs) =>
        /\ ~(pc = "raised" /\ result.exc = "TypeError")
        /\ pc = "returned" =>
              \A q \in 1..Len(KeptItems) :
                  result.val.fields[q].name = EmittedName(KeptItems[q])

(* C11: a UUID field (uuid.UUID or UUID1..UUID5, possibly Optional) is a    *)
(* uuid column when the installed pyarrow is 18 or later and otherwise      *)
(* fails with the error "needs version 18.0 or higher"; it never fails as   *)
(* an unknown type.                                                         *)
C11_UuidColumn ==
    \A p \in 1..i :
        LET info == Items[p]
            failedHere == pc = "raised" /\ p = i
        IN  (Unwrapped(info.annotation) = Cls("UUID") /\ ~Skipped(info)) =>
                /\ IF pa_version >= UuidMinVersion
                   THEN ~failedHere /\ fields[OutputIndex(p)].type = PaType("uuid")
                   ELSE /\ failedHere
                        /\ Innermost(result.msg).text = "needs version 18.0 or higher"
                /\ failedHere => Innermost(result.msg).text # "Unknown type"

(* C12: an integer field (plain, under Optional, or as a list element)      *)
(* fails with "Gt metadata must be int" / "Ge metadata must be int"         *)
(* whenever some Gt/Ge of its metadata has a bound that is neither None nor *)
(* an int (isinstance, so bool counts as int), wherever that constraint     *)
(* stands and whatever valid constraints stand around it; the error names   *)
(* the kind of the first such constraint.                                   *)
NotIntBound(el) == BoundOf(el).t \notin {"int", "bool", "NoneType"}
BadBounds(md) == {n \in LowerBoundsOf(md) : NotIntBound(md[n])}
C12_NonIntBoundFails ==
    \A p \in 1..i :
        LET info == Items[p]
            bad == BadBounds(info.metadata)
            first == CHOOSE n \in bad : \A m \in bad : n <= m
        IN  (info.annotation \in IntShapes /\ ~Skipped(info) /\ bad # {}) =>
                /\ Failed /\ p = i
                /\ result.msg.text = "Error processing field"
                /\ result.msg.err.text =
                      (IF info.metadata[first].k = "Gt"
                       THEN "Gt metadata must be int" ELSE "Ge metadata must be int")

C12_Witness ==
    /\ Failed
    /\ Items[1].annotation = Cls("int")
    /\ Items[1].metadata = <<Gt(IntVal(1)), Ge(Val("float", 0))>>
    /\ result.msg.err.text = "Ge metadata must be int"

(* C13: the type handed to dispatch is decided by the first rule it        *)
(* matches, in the order FIELD_MAP, LOSING_TZ_TYPES, Enum, int / Decimal,   *)
(* Literal / list / Annotated / dict, BaseModel; a type matching none       *)
(* fails with "Unknown type" naming that type.  bool is a bool column and   *)
(* an Enum of integers is int64 whatever integer constraint the metadata    *)
(* holds: neither is resolved by the int rule.                              *)
Dispatched(info) == Unwrapped(info.annotation)
RuleOf(t) ==
    IF t \in DOMAIN FIELD_MAP THEN "primitive"
    ELSE IF t \in TzTypes THEN "timezone"
    ELSE IF t.k = "Enum" THEN "enum"
    ELSE IF t \in {Cls("int"), Cls("Decimal")} THEN "metadata"
    ELSE IF t.k \in {"Literal", "list", "Annotated", "dict"} /\ "args" \in DOMAIN t
    THEN "container"
    ELSE IF t.k = "Model" THEN "record"
    ELSE "unknown"
RuleOutcome(t, md, allow, exclude) ==
    CASE RuleOf(t) = "primitive" -> Ok(FIELD_MAP[t])
      [] RuleOf(t) = "timezone" ->
            IF allow THEN Ok(PaTimestamp("ms", "None"))
            ELSE Raise("SchemaCreationError", [text |-> TzErrorText, field_type |-> t])
      [] RuleOf(t) = "enum" -> _get_enum_type(t)
      [] RuleOf(t) = "metadata" ->
            IF t = Cls("int") THEN _get_int_type(md) ELSE _get_decimal_type(md)
      [] RuleOf(t) = "container" ->
            (CASE t.k = "Literal" -> _get_literal_type(t, md, allow, exclude)
               [] t.k = "list" -> _get_list_type(t, md, allow, exclude)
               [] t.k = "Annotated" -> _get_annotated_type(t, md, allow, exclude)
               [] t.k = "dict" -> _get_dict_type(t, md, allow, exclude))
      [] RuleOf(t) = "record" -> _get_nested_model(t, allow, exclude)
      [] RuleOf(t) = "unknown" ->
            Raise("SchemaCreationError", [text |-> "Unknown type", field_type |-> t])
C13_WitnessUnknown ==
    /\ Failed
    /\ Items[1].annotation = OptionalOf(Cls("Deque"))
    /\ result.msg.err = [text |-> "Unknown type", field_type |-> Cls("Deque")]

(* C14: a list field (possibly Optional) is List(inner), inner being the    *)
(* resolution of the element type with the field's metadata and flags; the  *)
(* field fails exactly when the element does.  The field's nullability is   *)
(* that of the enclosing field, whatever the element type.                  *)
(* ListElementAs(strip) states it for a given reading of what is resolved   *)
(* in place of an element type that is a union with a null arm.             *)
IsListField(info) == ~Skipped(info) /\ Unwrapped(info.annotation).k = "list"
                     /\ (HasNullArm(info.annotation) => IsOptionalOf(info.annotation))
ElementOf(info) == Unwrapped(info.annotation).args[1]
ListElementAs(strip(_)) ==
    \A p \in 1..i :
        LET info == Items[p]
            e == ElementOf(info)
            failedHere == pc = "raised" /\ p = i
            inner == _get_pyarrow_type(IF HasNullArm(e) THEN strip(e) ELSE e,
                                       info.metadata, call.allow_losing_tz,
                                       call.exclude_fields)
        IN  IsListField(info) =>
                /\ failedHere <=> ~inner.ok
                /\ failedHere => result.msg.err = inner.msg
                /\ ~failedHere =>
                      /\ fields[OutputIndex(p)].type = PaList(inner.val)
                      /\ fields[OutputIndex(p)].nullable = HasNullArm(info.annotation)

\* the union without its null arm: T for Optional[T], Union[X, Y] for
\* Union[X, Y, None]
WithoutNull(t) == UnionOf(NonNullArms(t))
\* the arm that comes first in this process's iteration order
FirstArm(t) == ListOfSet0(NonNullArms(t))

(* C14 as claimed: the null arm is stripped and what is left is resolved,   *)
(* so that List[Optional[T]] resolves as List[T] for every T.               *)
C14_ListOfOptionalAsListOf == ListElementAs(WithoutNull)

(* C14 as amended: the null arm is stripped and, when several arms are      *)
(* left, one of them (the first in the process's set order) is resolved as  *)
(* the element type; List[Optional[T]] resolves as List[T] for every T that *)
(* is not a union.                                                          *)
C14_ListOfOptional ==
    /\ ListElementAs(FirstArm)
    /\ \A p \in 1..i :
          LET info == Items[p]
              e == ElementOf(info)
              plain == [info EXCEPT !.annotation = ListOf(Unwrapped(e))]
          IN  (IsListField(info) /\ IsOptionalOf(e) /\ ~HasNullArm(info.annotation)) =>
                  _get_pyarrow_schema_body(plain.name, plain, call.allow_losing_tz,
                                           call.exclude_fields)
                    = (IF pc = "raised" /\ p = i
                       THEN [act |-> "raise", exc |-> result.exc,
                             msg |-> [result.msg EXCEPT !.field_type = plain.annotation]]
                       ELSE [act |-> "append", field |-> fields[OutputIndex(p)]])

C14_Witness ==
    /\ pc = "returned"
    /\ Items[1].annotation = ListOf(OptionalOf(Cls("int")))
    /\ Items[1].metadata = <<Ge(IntVal(1))>>
    /\ result.val.fields[1] = PaField("a", PaList(PaType("uint64")), FALSE)

C14_WitnessSeveralArms ==
    /\ pc = "returned"
    /\ Items[1].annotation = ListOf(OptionalOf(UnionOf(MultiArms)))
    /\ result.val.fields[1].type = PaList(PaType("int64"))

(* C15: a dict field (possibly Optional) is Map(key, value), the key type   *)
(* and the value type each resolved on its own with the field's metadata    *)
(* and the call's flags; it resolves exactly when both sides do, and fails  *)
(* with the error of the key if the key fails, else of the value.  An       *)
(* int / Decimal key and an int / Decimal value both read the constraints   *)
(* of the field's metadata.                                                 *)
IsDictField(info) == ~Skipped(info) /\ Unwrapped(info.annotation).k = "dict"
                     /\ (HasNullArm(info.annotation) => IsOptionalOf(info.annotation))
SideColumn(t, md) ==
    IF t = Cls("int") THEN _get_int_type(md) ELSE _get_decimal_type(md)
C15_MapSides ==
    \A p \in 1..i :
        LET info == Items[p]
            t == Unwrapped(info.annotation)
            failedHere == pc = "raised" /\ p = i
            key == _get_pyarrow_type(t.args[1], info.metadata, call.allow_losing_tz,
                                     call.exclude_fields)
            item == _get_pyarrow_type(t.args[2], info.metadata, call.allow_losing_tz,
                                      call.exclude_fields)
            col == fields[OutputIndex(p)].type
        IN  IsDictField(info) =>
                /\ failedHere <=> ~(key.ok /\ item.ok)
                /\ failedHere => result.msg.err = (IF ~key.ok THEN key.msg ELSE item.msg)
                /\ ~failedHere =>
                      /\ col = PaMap(key.val, item.val)
                      /\ t.args[1] \in TYPES_WITH_METADATA =>
                            col.key_type = SideColumn(t.args[1], info.metadata).val
                      /\ t.args[2] \in TYPES_WITH_METADATA =>
                            col.item_type = SideColumn(t.args[2], info.metadata).val

C15_Witness ==
    /\ pc = "returned"
    /\ Items[1].annotation = DictOf(Cls("int"), Cls("int"))
    /\ Items[1].metadata = <<Ge(IntVal(0))>>
    /\ result.val.fields[1].type = PaMap(PaType("uint64"), PaType("uint64"))

C15_WitnessValueFails ==
    /\ Failed
    /\ Items[1].annotation = DictOf(Cls("int"), Cls("Decimal"))
    /\ Items[1].metadata = <<Ge(IntVal(0))>>
    /\ result.msg.err.text =
          "Decimal type needs annotation setting max_digits and decimal_places"

(* C16: the normalizer of the field loop never fails.  A field whose        *)
(* declared type is a union of NoneType with two or more other arms is      *)
(* nullable and is resolved as exactly one of those arms: its column is the *)
(* column of that arm, the other arms are not looked at, and when the call  *)
(* fails on the field the error is the error of resolving that arm.         *)
SeveralArms(t) == HasNullArm(t) /\ Cardinality(NonNullArms(t)) >= 2
C16_OneArmRepresents ==
    \A p \in 1..i :
        LET info == Items[p]
            failedHere == pc = "raised" /\ p = i
        IN  (~Skipped(info) /\ SeveralArms(info.annotation)) =>
                \E arm \in NonNullArms(info.annotation) :
                    LET alone == _get_pyarrow_type(arm, info.metadata,
                                                   call.allow_losing_tz,
                                                   call.exclude_fields)
                    IN  /\ failedHere <=> ~alone.ok
                        /\ failedHere =>
                              /\ result.msg.field_type = arm
                              /\ result.msg.err = alone.msg
                        /\ ~failedHere =>
                              fields[OutputIndex(p)] = PaField(info.name, alone.val, TRUE)

C16_Witness ==
    /\ pc = "returned"
    /\ Items[1].annotation = OptionalOf(UnionOf({Cls("int"), Cls("Deque")}))
    /\ Items[1].metadata = <<>>
    /\ result.val.fields[1] = PaField("a", PaType("int64"), TRUE)

C16_WitnessArmFails ==
    /\ Failed
    /\ Items[1].annotation = OptionalOf(UnionOf({Cls("int"), Cls("Deque")}))
    /\ result.msg.field_type = Cls("Deque")
    /\ result.msg.err.text = "Unknown type"

(* C19: the null arm of a union is stripped at the top of a field's        *)
(* declared type and at the element type of a list, nowhere else.  A union  *)
(* that dispatch is handed (a map key, a map value, the base of Annotated,  *)
(* with or without a null arm; or a union without a null arm at the top of  *)
(* a field or as a list element) makes the field fail, and the error at     *)
(* that position is "Unknown type" naming the union.                        *)
IsUnion(t) == t.k = "Union"
\* what the loop body hands to dispatch for a declared type
HandedOn(t) == IF HasNullArm(t) THEN FirstArm(t) ELSE t
\* dispatch of t is handed a union somewhere below
RECURSIVE MeetsUnion(_, _)
MeetsUnion(t, exclude) ==
    CASE IsUnion(t) -> TRUE
      [] t.k = "list" -> MeetsUnion(HandedOn(t.args[1]), exclude)
      [] t.k = "dict" -> MeetsUnion(t.args[1], exclude) \/ MeetsUnion(t.args[2], exclude)
      [] t.k = "Annotated" -> MeetsUnion(t.args[1], exclude)
      [] t.k = "Model" ->
            \E n \in 1..Len(t.model_fields) :
                /\ ~(t.model_fields[n].exclude /\ exclude)
                /\ MeetsUnion(HandedOn(t.model_fields[n].annotation), exclude)
      [] OTHER -> FALSE
UnknownType(t) == [text |-> "Unknown type", field_type |-> t]
C19_NullStrippedOnlyAtTopAndListElement ==
    \A p \in 1..i :
        LET info == Items[p]
            t == HandedOn(info.annotation)
            md == info.metadata
            failedHere == pc = "raised" /\ p = i
            resolves(u) == _get_pyarrow_type(u, md, call.allow_losing_tz,
                                             call.exclude_fields).ok
        IN  ~Skipped(info) =>
                /\ MeetsUnion(t, call.exclude_fields) => failedHere
                /\ IsUnion(t) => result.msg.err = UnknownType(t)
                /\ (t.k = "list" /\ IsUnion(HandedOn(t.args[1]))) =>
                      result.msg.err = UnknownType(t.args[1])
                /\ (t.k = "dict" /\ IsUnion(t.args[1])) =>
                      result.msg.err = UnknownType(t.args[1])
                /\ (t.k = "dict" /\ IsUnion(t.args[2]) /\ resolves(t.args[1])) =>
                      result.msg.err = UnknownType(t.args[2])
                /\ (t.k = "Annotated" /\ IsUnion(t.args[1])) =>
                      result.msg.err = UnknownType(t.args[1])
                /\ (failedHere /\ Innermost(result.msg).text = "Unknown type") =>
                      \/ MeetsUnion(t, call.exclude_fields)
                      \/ ~IsUnion(Innermost(result.msg).field_type)

C19_Witness ==
    /\ Failed
    /\ Items[1].annotation = DictOf(Cls("str"), OptionalOf(Cls("str")))
    /\ result.msg.err = UnknownType(OptionalOf(Cls("str")))

C19_WitnessAnnotated ==
    /\ Failed
    /\ Items[1].annotation = AnnotatedOf(OptionalOf(Cls("int")), <<Ge(IntVal(0))>>)
    /\ result.msg.err = UnknownType(OptionalOf(Cls("int")))

(* C20: when the metadata of an integer field holds several Gt / Ge (all    *)
(* bounds None or int), the last of them in metadata order alone decides:   *)
(* uint64 exactly when its bound is not None and >= 0, int64 otherwise,     *)
(* whatever the bounds of the earlier ones.                                 *)
LastLowerBound(md) ==
    BoundOf(md[CHOOSE n \in LowerBoundsOf(md) : \A m \in LowerBoundsOf(md) : m <= n])
C20_LastLowerBoundWins ==
    \A p \in 1..i :
        LET info == Items[p]
            md == info.metadata
        IN  (/\ info.annotation \in IntShapes /\ ~Skipped(info)
             /\ Cardinality(LowerBoundsOf(md)) >= 2
             /\ BadBounds(md) = {}) =>
                /\ ~(pc = "raised" /\ p = i)
                /\ IntColumn(info.annotation, fields[OutputIndex(p)].type) =
                      (IF LastLowerBound(md) # None /\ LastLowerBound(md).v >= 0
                       THEN PaType("uint64") ELSE PaType("int64"))

C20_Witness ==
    /\ pc = "returned"
    /\ Items[1].annotation = Cls("int")
    /\ Items[1].metadata = <<Ge(IntVal(1)), Gt(IntVal(0 - 1))>>
    /\ result.val.fields[1].type = PaType("int64")

C20_WitnessUnsigned ==
    /\ pc = "returned"
    /\ Items[1].annotation = Cls("int")
    /\ Items[1].metadata = <<Gt(IntVal(0 - 1)), Ge(IntVal(0))>>
    /\ result.val.fields[1].type = PaType("uint64")

(* C17: calls made by several threads, their loop iterations interleaved    *)
(* in any order, over the same or different classes and flags: a call that  *)
(* ends has the result the entry point gives for its class and flags when   *)
(* run alone on the freshly imported module, and FIELD_MAP,                 *)
(* LOSING_TZ_TYPES, TYPES_WITH_METADATA, FIELD_TYPES and the field          *)
(* descriptors with their metadata stay as they were at import.             *)
RunAlone(c) ==
    get_pyarrow_schema(ThreadClasses[c.pydantic_class], c.allow_losing_tz,
                       c.exclude_fields)
C17_NoInterference ==
    /\ shared = ModuleState
    /\ \A t \in ThreadIds :
          /\ threads[t].pc \in {"returned", "raised"} =>
                threads[t].result = RunAlone(threads[t].call)
          /\ threads[t].pc = "loop" =>
                LET alone == _get_pyarrow_schema_loop(
                                ThreadClasses[threads[t].call.pydantic_class].model_fields,
                                1, <<>>, threads[t].call.allow_losing_tz,
                                threads[t].call.exclude_fields)
                    mine == _get_pyarrow_schema_loop(
                                ThreadItems(t), threads[t].i + 1, threads[t].fields,
                                threads[t].call.allow_losing_tz,
                                threads[t].call.exclude_fields)
                IN  mine = alone

C17_Witness ==
    /\ threads[1].pc = "returned" /\ threads[1].call.pydantic_class = "Readings"
    /\ threads[1].call.exclude_fields
    /\ threads[2].pc = "loop" /\ threads[2].call.pydantic_class = "Readings"
    /\ ~threads[2].call.exclude_fields /\ threads[2].i = 1
    /\ threads[1].result.val.fields = <<PaField("a", PaType("uint64"), TRUE)>>

(* C18: termination and recursion depth of a resolution run on the stack.   *)
Done == stack = <<>> /\ ret # NoReturn
Started == scall.pydantic_class # "None"
ClassNames == DOMAIN StackClasses
Largest(S) == CHOOSE n \in S : \A m \in S : m <= n

\* the classes a type names, anywhere in it
RECURSIVE Named_in(_)
Named_in(t) ==
    CASE t.k = "Model" -> {t.name}
      [] t.k = "Union" -> UNION {Named_in(a) : a \in t.args}
      [] t.k \in {"list", "dict"} /\ "args" \in DOMAIN t ->
            UNION {Named_in(t.args[n]) : n \in 1..Len(t.args)}
      [] t.k = "Annotated" -> Named_in(t.args[1])
      [] OTHER -> {}
\* the classes resolution of a type goes into
RECURSIVE Followed(_)
Followed(t) ==
    CASE t.k = "Model" -> {t.name}
      [] t.k = "list" /\ "args" \in DOMAIN t -> Followed(HandedOn(t.args[1]))
      [] t.k = "dict" /\ "args" \in DOMAIN t -> Followed(t.args[1]) \cup Followed(t.args[2])
      [] t.k = "Annotated" -> Followed(t.args[1])
      [] OTHER -> {}
\* the record graph as declared, and as resolution under exclude follows it
Refers(c) == UNION {Named_in(StackClasses[c][n].annotation) : n \in 1..Len(StackClasses[c])}
Follows(c, exclude) ==
    UNION {Followed(HandedOn(StackClasses[c][n].annotation)) :
            n \in {m \in 1..Len(StackClasses[c]) : ~(StackClasses[c][m].exclude /\ exclude)}}
RECURSIVE Closure(_, _, _)
Closure(S, succ(_), n) ==
    IF n = 0 THEN S ELSE Closure(S \cup UNION {succ(c) : c \in S}, succ, n - 1)
\* c refers to itself, directly or through other records, optionals, lists
RefersToItself(c) ==
    \E d \in Closure({c}, Refers, Cardinality(ClassNames)) :
        d \in Closure(Refers(d), Refers, Cardinality(ClassNames))
\* resolution of c under exclude would have to resolve some class inside itself
FollowsIntoItself(c, exclude) ==
    LET succ(d) == Follows(d, exclude)
    IN  \E d \in Closure({c}, succ, Cardinality(ClassNames)) :
            d \in Closure(succ(d), succ, Cardinality(ClassNames))

\* nesting depth of the type tree below a class: the class itself is level 1
RECURSIVE TypeDepth(_, _)
RECURSIVE ClassDepth(_, _)
TypeDepth(t, exclude) ==
    CASE t.k = "Model" -> ClassDepth(t.name, exclude)
      [] t.k = "list" /\ "args" \in DOMAIN t -> 1 + TypeDepth(HandedOn(t.args[1]), exclude)
      [] t.k = "dict" /\ "args" \in DOMAIN t ->
            1 + Largest({TypeDepth(t.args[1], exclude), TypeDepth(t.args[2], exclude)})
      [] t.k = "Annotated" -> 1 + TypeDepth(t.args[1], exclude)
      [] OTHER -> 1
ClassDepth(c, exclude) ==
    1 + Largest({0} \cup
                {TypeDepth(HandedOn(StackClasses[c][n].annotation), exclude) :
                    n \in {m \in 1..Len(StackClasses[c]) :
                              ~(StackClasses[c][m].exclude /\ exclude)}})
\* activations of _get_pyarrow_type on the stack, and the root record
RecursionDepth ==
    1 + Cardinality({n \in 1..Len(stack) : stack[n].fn = "_get_pyarrow_type"})

\* the class with the classes its non-skipped fields name written out, as
\* the resolvers take it
RECURSIVE ExpandType(_, _)
RECURSIVE ExpandClass(_, _)
ExpandType(t, exclude) ==
    CASE t.k = "Model" -> ExpandClass(t.name, exclude)
      [] t.k = "Union" -> [k |-> "Union", args |-> {ExpandType(a, exclude) : a \in t.args}]
      [] t.k \in {"list", "dict"} /\ "args" \in DOMAIN t ->
            [k |-> t.k, args |-> [n \in 1..Len(t.args) |-> ExpandType(t.args[n], exclude)]]
      [] t.k = "Annotated" ->
            [k |-> t.k, args |-> [n \in 1..Len(t.args) |->
                                    IF n = 1 THEN ExpandType(t.args[n], exclude)
                                    ELSE t.args[n]]]
      [] OTHER -> t
ExpandClass(c, exclude) ==
    ModelOf(c, [n \in 1..Len(StackClasses[c]) |->
                  IF StackClasses[c][n].exclude /\ exclude
                  THEN StackItems(c)[n]
                  ELSE [StackItems(c)[n] EXCEPT
                          !.annotation = ExpandType(@, exclude)]])

StackInv ==
    LET c == scall.pydantic_class
        exclude == scall.exclude_fields
    IN  Started =>
          /\ Len(stack) <= RecursionLimit
          /\ ~FollowsIntoItself(c, exclude) =>
                /\ RecursionDepth <= ClassDepth(c, exclude)
                /\ Done => ret = get_pyarrow_schema(ExpandClass(c, exclude),
                                                    scall.allow_losing_tz, exclude)
          /\ (FollowsIntoItself(c, exclude) /\ Done) =>
                /\ ~ret.ok /\ ret.exc = "SchemaCreationError"
                /\ ret.msg.text = "Error processing field"
          /\ (Done /\ ~ret.ok) =>
                /\ ret.exc = "SchemaCreationError"
                /\ Innermost(ret.msg) = RecursionError.msg =>
                      FollowsIntoItself(c, exclude)

(* C18 as claimed, its part a finite run decides: for a class whose record  *)
(* graph has no cycle the recursion depth never exceeds the nesting depth   *)
(* of the type tree, and for a class that refers to itself (directly or     *)
(* through other records, optionals or lists) resolution never completes.   *)
C18_SelfReferenceNeverCompletes ==
    Started =>
        /\ ~RefersToItself(scall.pydantic_class) =>
              RecursionDepth <= ClassDepth(scall.pydantic_class, scall.exclude_fields)
        /\ RefersToItself(scall.pydantic_class) => ~Done

(* C18 as amended: every resolution terminates, with a schema or an error.  *)
(* When the classes resolution goes into (those of non-skipped fields) form *)
(* no cycle, the recursion depth never exceeds the nesting depth of the     *)
(* type tree and the outcome is that of the resolvers.  Acyclicity is not   *)
(* checked: when resolution would have to go into a class inside itself it  *)
(* never returns a schema; it ends with a SchemaCreationError, of a field   *)
(* that fails before the cycle closes or of the RecursionError raised at    *)
(* the interpreter's recursion limit.                                       *)
C18_Terminates == []StackInv /\ (Started ~> Done)

C18_Witness ==
    /\ Done /\ scall.pydantic_class = "Node"
    /\ ~ret.ok /\ Innermost(ret.msg) = RecursionError.msg

C18_WitnessDepth ==
    /\ scall.pydantic_class = "Tree" /\ ~scall.exclude_fields
    /\ RecursionDepth = ClassDepth("Tree", FALSE)
    /\ RecursionDepth = 4

C18_WitnessFailsBeforeCycle ==
    /\ Done /\ scall.pydantic_class = "Pong" /\ ~scall.allow_losing_tz
    /\ Innermost(ret.msg).text = TzErrorText

----------------------------------------------------------------------------
(* C21: allow_losing_tz influences nothing but datetime / AwareDatetime.    *)
(* A call that has ended is compared with the same call (same class, same   *)
(* exclude_fields, same keywords, same process) made with the flag the      *)
(* other way round: when the type tree of the class holds no datetime and   *)
(* no AwareDatetime (looking into union arms, list elements, map sides,     *)
(* Annotated bases and the non-skipped fields of nested classes), the two   *)
(* outcomes are the same schema or the same error; and whenever the call    *)
(* with the flag false succeeds, the call with the flag true succeeds with  *)
(* the same schema.                                                         *)
RECURSIVE ContainsTz(_, _)
ContainsTz(t, exclude) ==
    CASE t = None -> FALSE
      [] t \in TzTypes -> TRUE
      [] t.k = "Union" -> \E arm \in t.args : ContainsTz(arm, exclude)
      [] t.k = "list" -> ContainsTz(t.args[1], exclude)
      [] t.k = "dict" -> ContainsTz(t.args[1], exclude) \/ ContainsTz(t.args[2], exclude)
      [] t.k = "Annotated" -> ContainsTz(t.args[1], exclude)
      [] t.k = "Model" ->
            \E n \in 1..Len(t.model_fields) :
                /\ ~(t.model_fields[n].exclude /\ exclude)
                /\ ContainsTz(t.model_fields[n].annotation, exclude)
      [] OTHER -> FALSE
Ended == pc \in {"returned", "raised"}
\* the outcome of the call of this behaviour made with allow_losing_tz = allow
OutcomeWith(allow) ==
    IF \E a \in call.kwargs : a[1] \notin Signature
    THEN Raise("TypeError",
               [text |-> "got an unexpected keyword argument",
                name |-> (CHOOSE a \in call.kwargs : a[1] \notin Signature)[1]])
    ELSE get_pyarrow_schema(call.pydantic_class, allow, call.exclude_fields)
C21_FlagOnlyGatesTz ==
    Ended =>
        LET flipped == OutcomeWith(~call.allow_losing_tz)
            withFalse == IF call.allow_losing_tz THEN flipped ELSE result
            withTrue == IF call.allow_losing_tz THEN result ELSE flipped
        IN  /\ ~ContainsTz(call.pydantic_class, call.exclude_fields) =>
                    withFalse = withTrue
            /\ withFalse.ok => withTrue = withFalse

\* a nested class and a list of nested classes, no datetime anywhere: the
\* call with the flag true ended as the call with the flag false does
C21_Witness ==
    /\ pc = "returned" /\ call.allow_losing_tz /\ ~call.exclude_fields
    /\ call.kwargs = {}
    /\ Len(Items) = 2
    /\ Items[1].annotation = Inner
    /\ Items[2].annotation = OptionalOf(Cls("int"))
    /\ ~ContainsTz(call.pydantic_class, call.exclude_fields)
    /\ OutcomeWith(FALSE) = result

\* a datetime only in a field exclude_fields skips: the call with the flag
\* false succeeds and the flag true gives the same schema
C21_WitnessSkippedTz ==
    /\ pc = "returned" /\ ~call.allow_losing_tz /\ call.exclude_fields
    /\ Items[1].annotation = OptionalOf(Mid)
    /\ ContainsTz(call.pydantic_class, FALSE)
    /\ ~ContainsTz(call.pydantic_class, TRUE)
    /\ OutcomeWith(TRUE) = result

\* the same error under both flags
C21_WitnessSameError ==
    /\ pc = "raised" /\ call.allow_losing_tz
    /\ Items[1].annotation = DictOf(Cls("str"), ListOf(Cls("Deque")))
    /\ OutcomeWith(FALSE) = result

\* where a datetime is reached the flag decides
C21_WitnessFlagDecides ==
    /\ pc = "returned" /\ call.allow_losing_tz
    /\ Items[1].annotation = ListOf(InnerTz)
    /\ ContainsTz(call.pydantic_class, call.exclude_fields)
    /\ ~OutcomeWith(FALSE).ok

=============================================================================
